---- MODULE Spec2Model ----
(***************************************************************************)
(* pgplayer: the audio/video synchronisation engine of                     *)
(* src/pgplayer/videoplayer.py (class VideoPlayer).                        *)
(*                                                                         *)
(* Three threads act on one session: the host (the caller of the public    *)
(* methods), the audio decode loop (_audio_process) and the video decode   *)
(* loop (_video_process).  Every method is cut into steps at its accesses  *)
(* to shared state; pc[t] is the position of thread t.                     *)
(*                                                                         *)
(* Units.  A time is a rational number of milliseconds, kept in lowest     *)
(* terms as [n |-> numerator, d |-> denominator]: a pts divided by the     *)
(* playback speed is not a whole number of milliseconds.  A stream tick    *)
(* (time_base) is TickMs milliseconds.  The clock index _idx is kept in    *)
(* units of 1/IdxScale of a tick, because move_frame computes              *)
(* duration * time_base, which is not a whole number of ticks.  Playback   *)
(* speed is kept in tenths.                                                *)
(*                                                                         *)
(* The stream has time_base 1/8 s and 4 frames per second.  Every pts,     *)
(* the duration and the seek targets are then binary fractions of a        *)
(* second, which a float holds exactly, so that the floor division and     *)
(* the comparisons of the code, made on floats, are the ones made here on  *)
(* rationals.                                                              *)
(***************************************************************************)
EXTENDS Integers, Sequences, FiniteSets, TLC

\* ---------------------------------------------------------------- bounds
ExtraFrames == 2        \* frames the host hands over beyond the queue's capacity
ClockFrames == 3        \* frames the host hands over when the clock is followed
MaxLag == 1             \* largest scheduling delay of a step, in 1/SubTicks frames
NumFrames == 3          \* frames in the video stream and in the audio stream
MaxLoop == 2            \* largest loop limit a session is constructed with
MaxCalls == 3           \* public-method calls the host makes in one run
MaxSeeks == 1           \* how many of them are seeks
MaxPasses == 1          \* passes a loop makes when loop = 0 (play forever)
MaxElapsed == 12        \* recorder: clock steps after which the encode loop
                        \* no longer polls an empty queue

\* ------------------------------------------------------- stream geometry
TickMs == 125           \* milliseconds per tick of the stream's time_base
TicksPerFrame == 2      \* pts distance of two consecutive frames
FrameMs == TickMs * TicksPerFrame          \* 1000 / fps
DurationMs == NumFrames * FrameMs          \* _duration
TicksPerSec == 1000 \div TickMs            \* 1 / time_base
IdxScale == 1000 * TicksPerSec             \* index units per tick
SubTicks == 2           \* recorder: clock steps per frame period (1 / fps)
RecFps == 10            \* recorder: frame_rate, frames per second
SleepEarly == 1         \* recorder: timer granularity, in clock steps

\* ------------------------------------------------------ program constants
DropThresholdMs == 5    \* 0.005 in "elif delay < -0.005"
DefaultSpeed == 10      \* "speed: float = 1", in tenths
MinSpeed == 1           \* 0.1, in tenths
MaxSpeed == 80          \* 8.0, in tenths
QueueCap == 50          \* "queue.Queue(50)"
DefaultVolume == 10     \* "volume: float = 1", in tenths
MinVolume == 0          \* 0
MaxVolume == 10         \* 1.0, in tenths

Threads == {"host", "audio", "video"}
Loops == {"audio", "video"}
RecThreads == {"host", "encode", "capture"}
Speeds == {10, 20}
MoveTargets == {0 - FrameMs, FrameMs + TickMs, DurationMs + FrameMs}
SeekDeltas == {FrameMs}
FrameTargets == {0, 2}
FrameDeltas == {1}
VolumeArgs == {0 - 5, 3, 15}
VolumeDeltas == {4, 12}
SpeedArgs == {0, 25, 90}
SpeedDeltas == {15, 85}
PkgLoops == {0 - 1, 0, 1, 2}
FrameSizes == {1, 2}

Min(a, b) == IF a < b THEN a ELSE b
Max(a, b) == IF a > b THEN a ELSE b
Abs(a) == IF a < 0 THEN 0 - a ELSE a

\* ------------------------------------------------------ rational arithmetic
RECURSIVE GCD(_, _)
GCD(a, b) == IF b = 0 THEN a ELSE GCD(b, a % b)

\* n / d, d > 0, in lowest terms
Ratio(n, d) ==
    LET g == GCD(Abs(n), d) IN [n |-> n \div g, d |-> d \div g]

\* a whole number of milliseconds as a time
Ms(t) == [n |-> t, d |-> 1]

Less(a, b) == a.n * b.d < b.n * a.d
Plus(a, b) == Ratio(a.n * b.d + b.n * a.d, a.d * b.d)
Minus(a, b) == Ratio(a.n * b.d - b.n * a.d, a.d * b.d)

\* Python's min(a, b) and max(a, b) on times
LeastOf(a, b) == IF Less(b, a) THEN b ELSE a
GreatestOf(a, b) == IF Less(a, b) THEN b ELSE a

\* whole multiples of `unit` ms in the time a, rounded down: int(a // unit)
Floor(a, unit) == a.n \div (a.d * unit)

\* no move() is waiting for the next clock write of a decode loop
NoSeek == Ms(0 - 1)

\* "max(0.1, min(8.0, speed))" of __init__
ConstructSpeed(s) == Max(MinSpeed, Min(MaxSpeed, s))

\* "max(0, min(1.0, volume))" of __init__ and set_volume
ClampVolume(v) == Max(MinVolume, Min(MaxVolume, v))

\* A set_playback_speed that stores its argument as it is.
SpeedUnclamped(v) == v

\* "min(8.0, max(0.1, value))" of set_playback_speed
ClampSpeed(v) == Min(MaxSpeed, Max(MinSpeed, v))

VARIABLES
    loop,               \* _loop
    has_audio,          \* _has_audio
    play_audio,         \* _play_audio
    speed,              \* _speed, in tenths
    volume,             \* _volume, in tenths
    stopped,            \* _stopped
    paused,             \* _paused
    pause_event,        \* _pause_event: TRUE when set
    time,               \* _time, a time in ms
    idx,                \* _idx, in 1/IdxScale ticks
    audio_loop_count,   \* _audio_loop_count
    video_loop_count,   \* _video_loop_count
    audio_thread,       \* _audio_thread: "none", "created", "started"
    video_thread,       \* _video_thread
    acur,               \* read position of _audio_container (next frame)
    vcur,               \* read position of _video_container (next frame)
    ac_closed,          \* times _audio_container.close() ran
    st_closed,          \* times _stream.close() ran
    vc_closed,          \* times _video_container.close() ran
    frame,              \* _frame: index of the held frame, -1 = blank canvas
    frame_size,         \* size of the surface in _frame: 1 = the video's own
                        \* size (self._size), 2 = another size
    frame_lock,         \* _frame_lock: "none" or the thread that holds it
    pc,                 \* position of each thread
    aframe,             \* audio loop: frame in hand
    vframe,             \* video loop: frame in hand (i)
    audio_pts,          \* video loop: local audio_pts
    vpts,               \* video loop: local pts
    hop,                \* host: method being executed
    harg,               \* host: its argument
    hloc,               \* host: locals of the method
    herr,               \* host: exception the method raised, "none" if none
    hcalls,             \* host: calls made so far
    hseeks,             \* host: seeks called so far
    published,          \* history: frames stored into _frame, in order
    snap,               \* history: observable state when the host's call began
    stops_done,         \* history: stop() invocations that ran to their end
    seek_pending,       \* history: target of a returned move() not yet
                        \* followed by a clock write of a decode loop, else -1
    crossed,            \* history: a decode loop has crossed a frame boundary
                        \* since the host's toggle_pause() was called
    record,             \* whether the history `published` is being kept
    r_record_audio,     \* recorder: _record_audio
    r_stopped,          \* recorder: _stopped
    r_video_frames,     \* recorder: _video_frames, the queue, oldest first
    r_frame_thread,     \* recorder: _frame_thread: "none", "started"
    r_audio_thread,     \* recorder: _audio_thread
    r_container_closed, \* recorder: times _container.close() ran
    r_input_closed,     \* recorder: times _input_stream.close() ran
    rpc,                \* recorder: position of each thread
    r_surf,             \* encode loop: surf, the frame in hand, 0 = none
    r_elapsed,          \* time.perf_counter() - start, in 1/SubTicks frames
    r_pts,              \* encode loop: frame.pts of the frame in hand
    r_written,          \* host: frames handed to write_frame so far
    r_frame,            \* host: the frame write_frame was called with
    r_err,              \* host: exception write_frame raised, "none" if none
    r_clock,            \* whether time.perf_counter() is being followed
    r_lag,              \* largest delay the scheduler adds to one step
    r_budget,           \* frames the host hands over in one run
    r_last_pts,         \* history: pts of the last frame encoded, -1 = none
    r_flushed,          \* history: the video encoder has been flushed
    r_muxed_closed,     \* history: a packet was muxed into a closed container
    r_aflushed,         \* recorder: the audio encoder has been flushed
    p_loop,             \* package player: loop
    p_stopped,          \* package player: stopped
    p_paused,           \* package player: paused
    p_pause_event,      \* package player: pause_event, TRUE when set
    p_stream_closed,    \* package player: stream.close() has run
    p_frame,            \* package player: frame[0], index of the image held
    p_flag,             \* package player: frame[1], "used" or "unused"
    p_frame_lock,       \* package player: frame_lock, "none" or its holder
    p_audio_loop_count, \* package player: audio_loop_count
    p_video_loop_count, \* package player: video_loop_count
    p_audio_thread,     \* package player: audio_thread, "none" or "started"
    p_video_thread,     \* package player: video_thread
    p_vread,            \* frames read from video_process.stdout in this pass
    p_aread,            \* buffers read from audio_process.stdout in this pass
    p_vkilled,          \* video_process has been killed
    p_akilled,          \* audio_process has been killed
    p_buf,              \* play-video loop: frame in hand (buf), -1 = none
    ppc,                \* package player: position of each thread
    p_hop,              \* package player host: method being executed
    p_calls,            \* package player host: calls made so far
    p_fresh             \* history: a frame was stored since the last get_frame

vars == <<loop, has_audio, play_audio, speed, stopped, paused, pause_event,
          time, idx, audio_loop_count, video_loop_count, audio_thread,
          video_thread, acur, vcur, ac_closed, st_closed, vc_closed, frame,
          pc, aframe, vframe, audio_pts, vpts, hop, harg, hloc, herr, hcalls,
          hseeks, published, snap, stops_done, seek_pending, crossed, record,
          volume, frame_size, frame_lock,
          r_record_audio, r_stopped, r_video_frames, r_frame_thread,
          r_audio_thread, r_container_closed, r_input_closed, rpc, r_surf,
          r_elapsed, r_pts, r_clock, r_written, r_frame, r_err, r_lag,
          r_budget, r_last_pts, r_flushed, r_muxed_closed, r_aflushed,
          p_loop, p_stopped, p_paused, p_pause_event, p_stream_closed, p_frame,
          p_flag, p_frame_lock, p_audio_loop_count, p_video_loop_count,
          p_audio_thread, p_video_thread, p_vread, p_aread, p_vkilled,
          p_akilled, p_buf, ppc, p_hop, p_calls, p_fresh>>

config == <<loop, has_audio, play_audio, record>>
params == <<speed, volume>>
flags == <<stopped, paused, pause_event>>
clock == <<time, idx>>
counts == <<audio_loop_count, video_loop_count>>
thr == <<audio_thread, video_thread>>
cursors == <<acur, vcur>>
closes == <<ac_closed, st_closed, vc_closed>>
slot == <<frame, frame_size, frame_lock>>
alocals == <<aframe>>
vlocals == <<vframe, audio_pts, vpts>>
hlocals == <<hop, harg, hloc, herr, hcalls, hseeks, snap>>
hist == <<published, stops_done, seek_pending, crossed>>
rconfig == <<r_record_audio, r_clock, r_lag, r_budget>>
rthr == <<r_frame_thread, r_audio_thread>>
rcloses == <<r_container_closed, r_input_closed>>
rencode == <<r_surf, r_pts, r_last_pts, r_flushed>>
rhost == <<r_written, r_frame, r_err>>
recorder == <<rconfig, r_stopped, r_video_frames, rthr, rcloses, rpc,
              rencode, r_elapsed, rhost, r_muxed_closed, r_aflushed>>
pflags == <<p_stopped, p_paused, p_pause_event>>
pslot == <<p_frame, p_flag, p_frame_lock, p_fresh>>
pcounts == <<p_audio_loop_count, p_video_loop_count>>
pthr == <<p_audio_thread, p_video_thread>>
ppipes == <<p_vread, p_aread, p_vkilled, p_akilled, p_buf>>
phost == <<p_hop, p_calls>>
package == <<p_loop, pflags, p_stream_closed, pslot, pcounts, pthr, ppipes,
             ppc, phost>>

NoLoc == [t |-> Ms(0), i |-> 0, was |-> FALSE, cur |-> 0, size |-> 0, flag |-> FALSE,
          ret |-> "ret"]
NoView ==
    [set |-> FALSE, stopped |-> FALSE, paused |-> FALSE, gate |-> FALSE]
NoSnap == [set |-> FALSE]

\* The state a caller can observe through the properties and the handles.
Observable ==
    [stopped |-> stopped, paused |-> paused, gate |-> pause_event,
     time |-> time, idx |-> idx, alc |-> audio_loop_count,
     vlc |-> video_loop_count, closes |-> closes]

\* ------------------------------------------------------------ constructor
\* __init__ with the speed argument drawn from `speeds` and the volume
\* argument from `volumes`; `rec` switches the history on.
ConstructWith(speeds, volumes, rec) ==
    /\ loop \in 0..MaxLoop
    /\ play_audio \in BOOLEAN
    /\ has_audio \in BOOLEAN
    /\ has_audio => play_audio
    /\ speed \in {ConstructSpeed(a) : a \in speeds}
    /\ volume \in {ClampVolume(a) : a \in volumes}
    /\ record = rec
    /\ stopped = FALSE
    /\ paused = FALSE
    /\ pause_event = TRUE
    /\ time = Ms(0)
    /\ idx = 0
    /\ audio_loop_count = 0
    /\ video_loop_count = 0
    /\ audio_thread = "none"
    /\ video_thread = "none"
    /\ acur = 0
    /\ vcur = 0
    /\ ac_closed = 0
    /\ st_closed = 0
    /\ vc_closed = 0
    /\ frame = -1
    /\ frame_size = 1
    /\ frame_lock = "none"
    /\ pc = [t \in Threads |-> "idle"]
    /\ aframe = -1
    /\ vframe = -1
    /\ audio_pts = Ms(0)
    /\ vpts = Ms(0)
    /\ hop = "none"
    /\ harg = 0
    /\ hloc = NoLoc
    /\ herr = "none"
    /\ hcalls = 0
    /\ hseeks = 0
    /\ published = <<>>
    /\ snap = NoSnap
    /\ stops_done = 0
    /\ seek_pending = NoSeek
    /\ crossed = FALSE

\* VideoRecorder.__init__ (src/pgplayer/videorecorder.py); `budget` is the
\* number of frames the host hands over, `lags` the scheduling delays of the
\* run (the clock is not followed when there is none).
RecConstruct(audios, lags, budget) ==
    /\ r_record_audio \in audios
    /\ r_clock = (lags # {})
    /\ r_lag \in IF lags = {} THEN {0} ELSE lags
    /\ r_budget = budget
    /\ r_stopped = FALSE
    /\ r_video_frames = <<>>
    /\ r_frame_thread = "none"
    /\ r_audio_thread = "none"
    /\ r_container_closed = 0
    /\ r_input_closed = 0
    /\ rpc = [t \in RecThreads |-> "idle"]
    /\ r_surf = 0
    /\ r_elapsed = 0
    /\ r_pts = 0
    /\ r_written = 0
    /\ r_frame = 0
    /\ r_err = "none"
    /\ r_last_pts = -1
    /\ r_flushed = FALSE
    /\ r_muxed_closed = FALSE
    /\ r_aflushed = FALSE

\* A recorder nobody uses.
NoRecorder == RecConstruct({FALSE}, {}, 0)

\* VideoPlayer.__init__ of the package (src/pgplayer/__init__.py), with the
\* loop argument drawn from `loops`: "self.loop = max(0, loop)".
PkgConstruct(loops) ==
    /\ p_loop \in {Max(0, l) : l \in loops}
    /\ p_stopped = FALSE
    /\ p_paused = FALSE
    /\ p_pause_event = TRUE
    /\ p_stream_closed = FALSE
    /\ p_frame = -1
    /\ p_flag = "used"
    /\ p_frame_lock = "none"
    /\ p_audio_loop_count = 0
    /\ p_video_loop_count = 0
    /\ p_audio_thread = "none"
    /\ p_video_thread = "none"
    /\ p_vread = 0
    /\ p_aread = 0
    /\ p_vkilled = FALSE
    /\ p_akilled = FALSE
    /\ p_buf = -1
    /\ ppc = [t \in Threads |-> "idle"]
    /\ p_hop = "none"
    /\ p_calls = 0
    /\ p_fresh = FALSE

\* A package player nobody uses.
NoPackage == PkgConstruct({1})

\* __init__ with the default volume.
Construct(speeds, rec) == ConstructWith(speeds, {DefaultVolume}, rec)

\* A session constructed with the default speed.
Init == Construct({DefaultSpeed}, FALSE) /\ NoRecorder /\ NoPackage

\* A session constructed with any of the speeds, its published frames recorded.
InitPlay == Construct(Speeds, TRUE) /\ NoRecorder /\ NoPackage

Goto(t, p) == pc' = [pc EXCEPT ![t] = p]

\* A decode loop crosses a frame boundary (pulls or publishes a frame, counts
\* a pass); noted while the host is inside toggle_pause().
Crossing == IF record /\ hop = "toggle_pause" THEN TRUE ELSE crossed

\* ------------------------------------------------------ media collaborator
\* pts of frame i in ticks, in ms, and as a clock index
FramePtsTicks(i) == i * TicksPerFrame
FramePtsMs(i) == i * FrameMs
FramePtsIdx(i) == FramePtsTicks(i) * IdxScale

\* Container.seek(offset): the read position after a seek to `offset`
\* (in 1/IdxScale ticks): the last frame at or before the offset.
SeekCursor(offset) ==
    Min(NumFrames - 1, (offset \div IdxScale) \div TicksPerFrame)

\* What Container.seek may do with the offset it is given.  An offset that
\* is not a whole number is outside the collaborator's contract: it is
\* rejected or truncated.
\* A closed container cannot be sought.
SeekOutcomes(offset, closed) ==
    IF closed > 0 THEN {"ClosedError"}
    ELSE IF offset % IdxScale = 0 THEN {"ok"} ELSE {"ok", "TypeError"}


\* ------------------------------------------------------------------ stop()
\* Where a thread continues when its stop() call returns.
StopReturn(t) ==
    CASE t = "host" -> "ret"
      [] t = "audio" -> "a_while"
      [] t = "video" -> "v_while"

ThreadState(t) == IF t = "audio" THEN audio_thread ELSE video_thread

\* A stop() whose body runs on every call.
StopUnguarded(s) == TRUE

\* "if not self._stopped:" -- whether the body of stop() runs.
StopGuard(s) == ~s

\* A stop() that leaves the gate as it finds it.
StopKeepsGate(g) == g

\* "if not self._pause_event.is_set(): self._pause_event.set()"
StopReleaseGate(g) == TRUE

\* A join that never waits.
JoinNoWait(c, t) == TRUE

\* "i.join()" inside "try: ... except Exception: pass", called by thread c for
\* thread t: joining None (AttributeError), a thread that was not started or
\* the calling thread itself (RuntimeError) raises at once and is skipped;
\* otherwise join returns when t has ended.
JoinReturns(c, t) ==
    \/ ThreadState(t) # "started"
    \/ c = t
    \/ pc[t] = "done"

InStop(t) ==
    pc[t] \in {"s_chk", "s_set", "s_gate", "s_gate_set", "s_join_a",
               "s_join_v", "s_close_a", "s_close_st", "s_close_v"}

StopCheck(t) ==
    /\ pc[t] = "s_chk"
    /\ IF StopGuard(stopped)
         THEN Goto(t, "s_set")
         ELSE Goto(t, StopReturn(t))
    /\ UNCHANGED <<package, recorder, config, params, flags, clock, counts, thr, cursors, closes,
                   slot, alocals, vlocals, hlocals, hist>>

StopSetFlag(t) ==
    /\ pc[t] = "s_set"
    /\ stopped' = TRUE
    /\ Goto(t, "s_gate")
    /\ UNCHANGED <<package, recorder, config, params, paused, pause_event, clock, counts, thr,
                   cursors, closes, slot, alocals, vlocals, hlocals, hist>>

StopTestGate(t) ==
    /\ pc[t] = "s_gate"
    /\ Goto(t, IF ~pause_event THEN "s_gate_set" ELSE "s_join_a")
    /\ UNCHANGED <<package, recorder, config, params, flags, clock, counts, thr, cursors, closes,
                   slot, alocals, vlocals, hlocals, hist>>

StopSetGate(t) ==
    /\ pc[t] = "s_gate_set"
    /\ pause_event' = StopReleaseGate(pause_event)
    /\ Goto(t, "s_join_a")
    /\ UNCHANGED <<package, recorder, config, params, stopped, paused, clock, counts, thr,
                   cursors, closes, slot, alocals, vlocals, hlocals, hist>>

StopJoinAudio(t) ==
    /\ pc[t] = "s_join_a"
    /\ JoinReturns(t, "audio")
    /\ Goto(t, "s_join_v")
    /\ UNCHANGED <<package, recorder, config, params, flags, clock, counts, thr, cursors, closes,
                   slot, alocals, vlocals, hlocals, hist>>

StopJoinVideo(t) ==
    /\ pc[t] = "s_join_v"
    /\ JoinReturns(t, "video")
    /\ Goto(t, "s_close_a")
    /\ UNCHANGED <<package, recorder, config, params, flags, clock, counts, thr, cursors, closes,
                   slot, alocals, vlocals, hlocals, hist>>

\* "if self._has_audio and self._play_audio: self._audio_container.close()"
StopCloseAudio(t) ==
    /\ pc[t] = "s_close_a"
    /\ IF has_audio /\ play_audio
         THEN /\ ac_closed' = ac_closed + 1
              /\ Goto(t, "s_close_st")
         ELSE /\ UNCHANGED ac_closed
              /\ Goto(t, "s_close_v")
    /\ UNCHANGED <<package, recorder, config, params, flags, clock, counts, thr, cursors,
                   st_closed, vc_closed, slot, alocals, vlocals, hlocals,
                   hist>>

\* "self._stream.abort(); self._stream.stop(); self._stream.close()"
StopCloseStream(t) ==
    /\ pc[t] = "s_close_st"
    /\ st_closed' = st_closed + 1
    /\ Goto(t, "s_close_v")
    /\ UNCHANGED <<package, recorder, config, params, flags, clock, counts, thr, cursors,
                   ac_closed, vc_closed, slot, alocals, vlocals, hlocals,
                   hist>>

\* "self._video_container.close(); return"
StopCloseVideo(t) ==
    /\ pc[t] = "s_close_v"
    /\ vc_closed' = vc_closed + 1
    /\ stops_done' = Min(stops_done + 1, MaxCalls + 2)
    /\ Goto(t, StopReturn(t))
    /\ UNCHANGED <<package, recorder, config, params, flags, clock, counts, thr, cursors,
                   ac_closed, st_closed, slot, alocals, vlocals, hlocals,
                   published, seek_pending, crossed>>

StopStep(t) ==
    \/ StopCheck(t)
    \/ StopSetFlag(t)
    \/ StopTestGate(t)
    \/ StopSetGate(t)
    \/ StopJoinAudio(t)
    \/ StopJoinVideo(t)
    \/ StopCloseAudio(t)
    \/ StopCloseStream(t)
    \/ StopCloseVideo(t)

\* --------------------------------------------------------- _audio_process
\* "self._stream.start()": starting a closed device raises and ends the thread.
AudioStart ==
    /\ pc["audio"] = "a_start"
    /\ Goto("audio", IF st_closed > 0 THEN "done" ELSE "a_while")
    /\ UNCHANGED <<package, recorder, config, params, flags, clock, counts, thr, cursors, closes,
                   slot, alocals, vlocals, hlocals, hist>>

\* "while not self._stopped:"
AudioWhile ==
    /\ pc["audio"] = "a_while"
    /\ stopped \/ loop # 0 \/ audio_loop_count < MaxPasses
    /\ Goto("audio", IF stopped THEN "done" ELSE "a_pull")
    /\ UNCHANGED <<package, recorder, config, params, flags, clock, counts, thr, cursors, closes,
                   slot, alocals, vlocals, hlocals, hist>>

\* "for frame in self._audio_container.decode(audio=0):"
AudioPull ==
    /\ pc["audio"] = "a_pull"
    /\ IF acur < NumFrames
         THEN /\ aframe' = acur
              /\ acur' = acur + 1
              /\ Goto("audio", "a_chk")
         ELSE /\ UNCHANGED <<aframe, acur>>
              /\ Goto("audio", "a_eos")
    /\ UNCHANGED <<package, recorder, config, params, flags, clock, counts, thr, vcur, closes,
                   slot, vlocals, hlocals, published, stops_done,
                   seek_pending>>
    /\ crossed' = Crossing

\* "if self._stopped: break"
AudioCheckStopped ==
    /\ pc["audio"] = "a_chk"
    /\ Goto("audio", IF stopped THEN "a_eos" ELSE "a_wait")
    /\ aframe' = IF stopped THEN -1 ELSE aframe
    /\ UNCHANGED <<package, recorder, config, params, flags, clock, counts, thr, cursors, closes,
                   slot, vlocals, hlocals, hist>>

\* A wait that returns whatever the state of the gate.
GateIgnored(g) == TRUE

\* "self._pause_event.wait()" returns when the gate is set.
GateOpen(g) == g

\* "self._pause_event.wait()"
AudioWait ==
    /\ pc["audio"] = "a_wait"
    /\ GateOpen(pause_event)
    /\ Goto("audio", "a_clock")
    /\ UNCHANGED <<package, recorder, config, params, flags, clock, counts, thr, cursors, closes,
                   slot, alocals, vlocals, hlocals, hist>>

\* "with self._time_lock: self._idx = frame.pts; self._time = frame.pts * tb"
AudioClock ==
    /\ pc["audio"] = "a_clock"
    /\ idx' = FramePtsIdx(aframe)
    /\ time' = Ms(FramePtsMs(aframe))
    /\ seek_pending' = NoSeek
    /\ aframe' = -1
    /\ Goto("audio", "a_write")
    /\ UNCHANGED <<package, recorder, config, params, flags, counts, thr, cursors, closes, slot,
                   vlocals, hlocals, published, stops_done, crossed>>

\* "if self._stream.closed or self._stopped or not self._stream.active: break"
\* "self._stream.write(data)"
AudioWrite ==
    /\ pc["audio"] = "a_write"
    /\ Goto("audio", IF st_closed > 0 \/ stopped THEN "a_eos" ELSE "a_pull")
    /\ UNCHANGED <<package, recorder, config, params, flags, clock, counts, thr, cursors, closes,
                   slot, alocals, vlocals, hlocals, hist>>

\* "if count < self._loop or self._loop == 0:" -- whether the loop plays again
PlaysAgain(count, limit) == count < limit \/ limit = 0

\* "self._audio_loop_count += 1" and the test that follows it
AudioCount ==
    /\ pc["audio"] = "a_eos"
    /\ audio_loop_count' = audio_loop_count + 1
    /\ Goto("audio", IF PlaysAgain(audio_loop_count', loop)
                       THEN "a_seek0" ELSE "s_chk")
    /\ UNCHANGED <<package, recorder, config, params, flags, clock, video_loop_count, thr,
                   cursors, closes, slot, alocals, vlocals, hlocals, published, stops_done,
                   seek_pending>>
    /\ crossed' = Crossing

\* "self._audio_container.seek(0)"
AudioSeekStart ==
    /\ pc["audio"] = "a_seek0"
    /\ acur' = SeekCursor(0)
    /\ Goto("audio", "a_while")
    /\ UNCHANGED <<package, recorder, config, params, flags, clock, counts, thr, vcur, closes,
                   slot, alocals, vlocals, hlocals, hist>>

AudioNext ==
    \/ AudioStart
    \/ AudioWhile
    \/ AudioPull
    \/ AudioCheckStopped
    \/ AudioWait
    \/ AudioClock
    \/ AudioWrite
    \/ AudioCount
    \/ AudioSeekStart
    \/ StopStep("audio")

\* --------------------------------------------------------- _video_process
last_time == 0

\* "pts = float(i.pts * i.time_base) / self._speed", in ms
ScaledPts(i, s) == Ratio(FramePtsMs(i) * 10, s)

\* "pts - last_time < 1 / (self._fps * self._speed)"
TooSoon(pts, s) == Less(Minus(pts, Ms(last_time)), Ratio(FrameMs * 10, s))

\* "while not self._stopped: last_time = 0"
VideoWhile ==
    /\ pc["video"] = "v_while"
    /\ stopped \/ loop # 0 \/ video_loop_count < MaxPasses
    /\ Goto("video", IF stopped THEN "done" ELSE "v_pull")
    /\ UNCHANGED <<package, recorder, config, params, flags, clock, counts, thr, cursors, closes,
                   slot, alocals, vlocals, hlocals, hist>>

\* "for i in self._video_container.decode(video=0):"
VideoPull ==
    /\ pc["video"] = "v_pull"
    /\ IF vcur < NumFrames
         THEN /\ vframe' = vcur
              /\ vcur' = vcur + 1
              /\ Goto("video", "v_wait")
         ELSE /\ UNCHANGED <<vframe, vcur>>
              /\ Goto("video", "v_eos")
    /\ UNCHANGED <<package, recorder, config, params, flags, clock, counts, thr, acur, closes,
                   slot, alocals, audio_pts, vpts, hlocals, published, stops_done,
                   seek_pending>>
    /\ crossed' = Crossing

\* "self._pause_event.wait()"
VideoWait ==
    /\ pc["video"] = "v_wait"
    /\ GateOpen(pause_event)
    /\ Goto("video", "v_chk")
    /\ UNCHANGED <<package, recorder, config, params, flags, clock, counts, thr, cursors, closes,
                   slot, alocals, vlocals, hlocals, hist>>

\* "if self._stopped: break"
VideoCheckStopped ==
    /\ pc["video"] = "v_chk"
    /\ Goto("video", IF stopped THEN "v_eos" ELSE "v_read")
    /\ vframe' = IF stopped THEN -1 ELSE vframe
    /\ UNCHANGED <<package, recorder, config, params, flags, clock, counts, thr, cursors, closes,
                   slot, alocals, audio_pts, vpts, hlocals, hist>>

\* "with self._time_lock: audio_pts = self._time"
VideoReadClock ==
    /\ pc["video"] = "v_read"
    /\ audio_pts' = time
    /\ Goto("video", "v_delay")
    /\ UNCHANGED <<package, recorder, config, params, flags, clock, counts, thr, cursors, closes,
                   slot, alocals, vframe, vpts, hlocals, hist>>

\* "elif delay < -0.005: continue" -- the frame is too late
TooLate(delay) == Less(delay, Ms(0 - DropThresholdMs))

\* A video loop that writes the clock whether or not audio plays.
VideoAlwaysWritesClock(ha, pa) == TRUE

\* "if not self.has_audio or not self.play_audio:"
VideoWritesClock(ha, pa) == ~ha \/ ~pa

\* "pts = float(i.pts * i.time_base) / self._speed; delay = pts - audio_pts":
\* the speed is read here; the frame is dropped when it is too late, and the
\* loop sleeps ("time.sleep(min(delay, 0.005))") when it is early.
VideoDelay ==
    /\ pc["video"] = "v_delay"
    /\ LET pts == ScaledPts(vframe, speed)
       IN IF TooLate(Minus(pts, audio_pts))
            THEN /\ Goto("video", "v_pull")
                 /\ vframe' = -1
                 /\ vpts' = Ms(0)
            ELSE /\ Goto("video", "v_soon")
                 /\ vpts' = pts
                 /\ UNCHANGED vframe
    /\ audio_pts' = Ms(0)
    /\ UNCHANGED <<package, recorder, config, params, flags, clock, counts, thr, cursors, closes,
                   slot, alocals, hlocals, hist>>

\* "if pts - last_time < 1 / (self._fps * self._speed): continue": the speed
\* is read again, after the sleep; the video loop writes the clock only when
\* no audio plays ("if not self.has_audio or not self.play_audio:").
VideoPace ==
    /\ pc["video"] = "v_soon"
    /\ IF TooSoon(vpts, speed)
         THEN /\ Goto("video", "v_pull")
              /\ vframe' = -1
              /\ vpts' = Ms(0)
         ELSE /\ Goto("video", IF VideoWritesClock(has_audio, play_audio)
                                 THEN "v_clock" ELSE "v_publish")
              /\ UNCHANGED <<vframe, vpts>>
    /\ UNCHANGED <<package, recorder, config, params, flags, clock, counts, thr, cursors, closes,
                   slot, alocals, audio_pts, hlocals, hist>>

\* "with self._time_lock: self._time = pts; self._idx = i.pts"
VideoClock ==
    /\ pc["video"] = "v_clock"
    /\ time' = vpts
    /\ idx' = FramePtsIdx(vframe)
    /\ seek_pending' = NoSeek
    /\ Goto("video", "v_publish")
    /\ UNCHANGED <<package, recorder, config, params, flags, counts, thr, cursors, closes, slot,
                   alocals, vlocals, hlocals, published, stops_done, crossed>>

\* "with self._frame_lock: self._frame = frame" and the pacing sleep
VideoPublish ==
    /\ pc["video"] = "v_publish"
    /\ frame_lock = "none"
    /\ frame' = vframe
    /\ frame_size' = 1
    /\ UNCHANGED frame_lock
    /\ published' = IF record THEN Append(published, vframe) ELSE published
    /\ vframe' = -1
    /\ vpts' = Ms(0)
    /\ Goto("video", "v_pull")
    /\ UNCHANGED <<package, recorder, config, params, flags, clock, counts, thr, cursors, closes,
                   alocals, audio_pts, hlocals, stops_done, seek_pending>>
    /\ crossed' = Crossing

\* "self._video_loop_count += 1" and the test that follows it
VideoCount ==
    /\ pc["video"] = "v_eos"
    /\ video_loop_count' = video_loop_count + 1
    /\ Goto("video", IF PlaysAgain(video_loop_count', loop)
                       THEN "v_seek0" ELSE "s_chk")
    /\ UNCHANGED <<package, recorder, config, params, flags, clock, audio_loop_count, thr,
                   cursors, closes, slot, alocals, vlocals, hlocals, published, stops_done,
                   seek_pending>>
    /\ crossed' = Crossing

\* "self._video_container.seek(0)"
VideoSeekStart ==
    /\ pc["video"] = "v_seek0"
    /\ vcur' = SeekCursor(0)
    /\ Goto("video", "v_while")
    /\ UNCHANGED <<package, recorder, config, params, flags, clock, counts, thr, acur, closes,
                   slot, alocals, vlocals, hlocals, hist>>

VideoNext ==
    \/ VideoWhile
    \/ VideoPull
    \/ VideoWait
    \/ VideoCheckStopped
    \/ VideoReadClock
    \/ VideoDelay
    \/ VideoPace
    \/ VideoClock
    \/ VideoPublish
    \/ VideoCount
    \/ VideoSeekStart
    \/ StopStep("video")


\* ------------------------------------------------------------ host: calls
SeekOps == {"move", "forward", "rewind", "move_frame", "forward_frame",
            "rewind_frame"}

\* Thread t is not running or waits at "self._pause_event.wait()".
Parked(t) == pc[t] \in {"idle", "done", "a_wait", "v_wait"}

\* What a toggle_pause() call finds.
PauseView ==
    [set |-> TRUE, stopped |-> stopped, paused |-> paused,
     gate |-> pause_event]
\* The host calls public method `op` with argument `arg`.
Call(op, arg, first) ==
    /\ pc["host"] = "idle"
    /\ hcalls < MaxCalls
    /\ op \in SeekOps => hseeks < MaxSeeks
    /\ hseeks' = IF op \in SeekOps THEN hseeks + 1 ELSE hseeks
    /\ hop' = op
    /\ harg' = arg
    /\ hloc' = NoLoc
    /\ herr' = "none"
    /\ hcalls' = hcalls + 1
    /\ snap' = IF op = "stop"
                 THEN [set |-> TRUE, obs |-> Observable, prior |-> stops_done,
                       parked |-> Parked("audio") /\ Parked("video")]
               ELSE IF op \in SeekOps
                 THEN [set |-> TRUE, paused |-> paused, gate |-> pause_event,
                       prior |-> stops_done]
               ELSE IF op = "start" THEN NoSnap
               ELSE IF op = "toggle_pause"
                 THEN [set |-> TRUE, prior |-> stops_done,
                       at |-> IF record THEN PauseView ELSE NoView,
                       first |-> NoView]
               ELSE [set |-> TRUE, prior |-> stops_done, speed |-> speed,
                     volume |-> volume]
    /\ Goto("host", first)
    /\ UNCHANGED <<package, recorder, config, params, flags, clock, counts, thr, cursors, closes,
                   slot, alocals, vlocals, published, stops_done,
                   seek_pending>>
    /\ crossed' = FALSE

\* start() is called at most once per session, and not on a stopped one.
CallStart == video_thread = "none" /\ ~stopped /\ Call("start", 0, "st_a")
CallStop == Call("stop", 0, "s_chk")
CallTogglePause == Call("toggle_pause", 0, "tp_gate")
CallMove == \E t \in MoveTargets : Call("move", t, "m_begin")
CallForward == \E d \in SeekDeltas : Call("forward", d, "f_read")
CallRewind == \E d \in SeekDeltas : Call("rewind", d, "f_read")
CallMoveFrame == \E n \in FrameTargets : Call("move_frame", n, "mf_begin")
CallForwardFrame == \E n \in FrameDeltas : Call("forward_frame", n, "ff_read")
CallRewindFrame == \E n \in FrameDeltas : Call("rewind_frame", n, "rf_read")

\* The method returns (or its exception reaches the caller).
Return ==
    /\ pc["host"] = "ret"
    /\ hop' = "none"
    /\ harg' = 0
    /\ hloc' = NoLoc
    /\ herr' = "none"
    /\ snap' = NoSnap
    /\ Goto("host", "idle")
    /\ UNCHANGED <<package, recorder, config, params, flags, clock, counts, thr, cursors, closes,
                   slot, alocals, vlocals, hcalls, hseeks, published, stops_done,
                   seek_pending>>
    /\ crossed' = FALSE

\* ----------------------------------------------------------------- start()
\* Both Thread objects are created, then the audio thread is started.
StartAudio ==
    /\ pc["host"] = "st_a"
    /\ video_thread' = "created"
    /\ IF has_audio /\ play_audio
         THEN /\ audio_thread' = "started"
              /\ pc' = [pc EXCEPT !["host"] = "st_v", !["audio"] = "a_start"]
         ELSE /\ UNCHANGED audio_thread
              /\ Goto("host", "st_v")
    /\ UNCHANGED <<package, recorder, config, params, flags, clock, counts, cursors, closes,
                   slot, alocals, vlocals, hlocals, hist>>

\* "self._video_thread.start()"
StartVideo ==
    /\ pc["host"] = "st_v"
    /\ video_thread' = "started"
    /\ pc' = [pc EXCEPT !["host"] = "ret", !["video"] = "v_while"]
    /\ UNCHANGED <<package, recorder, config, params, flags, clock, counts, audio_thread, cursors,
                   closes, slot, alocals, vlocals, hlocals, hist>>

\* ---------------------------------------------------------- toggle_pause()
\* A toggle_pause that sets the gate whatever its state.
ToggleSetsGate(g) == TRUE

\* The value toggle_pause gives the gate, from the gate's state.
ToggleGate(g) == ~g

\* "if self._pause_event.is_set(): self._pause_event.clear() else: .set()"
ToggleEvent ==
    /\ pc["host"] = "tp_gate"
    /\ pause_event' = ToggleGate(pause_event)
    /\ hloc' = [hloc EXCEPT !.flag = pause_event]
    /\ Goto("host", "tp_flag")
    /\ UNCHANGED <<package, recorder, config, params, stopped, paused, clock, counts, thr,
                   cursors, closes, slot, alocals, vlocals, hop, harg, herr,
                   hcalls, hseeks, snap, hist>>

\* toggle_pause() returns and the host calls it again at once.
ToggleAgain ==
    /\ pc["host"] = "ret"
    /\ hop = "toggle_pause"
    /\ herr = "none"
    /\ hcalls < MaxCalls
    /\ hcalls' = hcalls + 1
    /\ hloc' = NoLoc
    /\ snap' = [set |-> TRUE, prior |-> stops_done,
                at |-> IF record THEN PauseView ELSE NoView,
                first |-> snap.at]
    /\ Goto("host", "tp_gate")
    /\ UNCHANGED <<package, recorder, config, params, flags, clock, counts, thr,
                   cursors, closes, slot, alocals, vlocals, hop, harg, herr,
                   hseeks, hist>>

\* move(), forward() and rewind() have returned once their last step is done.
MoveReturns(next) == next = "ret" /\ hop \in {"move", "forward", "rewind"}

\* "self._paused = True" or "self._paused = False", and the return
ToggleFlag ==
    /\ pc["host"] = "tp_flag"
    /\ paused' = hloc.flag
    /\ Goto("host", hloc.ret)
    /\ seek_pending' = IF MoveReturns(hloc.ret) THEN hloc.t ELSE seek_pending
    /\ UNCHANGED <<package, recorder, config, params, stopped, pause_event, clock, counts, thr,
                   cursors, closes, slot, alocals, vlocals, hlocals,
                   published, stops_done, crossed>>

\* --------------------------------------------------- move, forward, rewind
\* "with self._time_lock: current_time = self._time"
ForwardRead ==
    /\ pc["host"] = "f_read"
    /\ hloc' = [hloc EXCEPT !.cur = time]
    /\ Goto("host", "m_begin")
    /\ UNCHANGED <<package, recorder, config, params, flags, clock, counts, thr, cursors, closes,
                   slot, alocals, vlocals, hop, harg, herr, hcalls, hseeks, snap,
                   hist>>

\* The timestamp move() is called with.
MoveTimestamp ==
    CASE hop = "forward" -> Plus(hloc.cur, Ms(harg))
      [] hop = "rewind" -> Minus(hloc.cur, Ms(harg))
      [] OTHER -> Ms(harg)

\* "_time = min(self._duration, max(0, timestamp))"
MoveTime(timestamp) == LeastOf(Ms(DurationMs), GreatestOf(Ms(0), timestamp))

\* "idx = int(_time // self._video_stream.time_base)"
MoveIdx(t) == Floor(t, TickMs) * IdxScale

\* "was_playing = self._paused; if was_playing: self.toggle_pause()"
MoveBegin ==
    /\ pc["host"] = "m_begin"
    /\ LET t == MoveTime(MoveTimestamp)
           was == paused
       IN /\ hloc' = [hloc EXCEPT !.t = t, !.i = MoveIdx(t), !.was = was,
                                  !.ret = "m_seek_a"]
          /\ Goto("host", IF was THEN "tp_gate" ELSE "m_seek_a")
    /\ UNCHANGED <<package, recorder, config, params, flags, clock, counts, thr, cursors, closes,
                   slot, alocals, vlocals, hop, harg, herr, hcalls, hseeks, snap,
                   hist>>

\* "if self._play_audio and self._has_audio:
\*      self._audio_container.seek(idx, stream=self._audio_stream)"
SeekAudio(at, next) ==
    /\ pc["host"] = at
    /\ IF play_audio /\ has_audio
         THEN \E r \in SeekOutcomes(hloc.i, ac_closed) :
                IF r = "ok"
                  THEN /\ acur' = SeekCursor(hloc.i)
                       /\ Goto("host", next)
                       /\ UNCHANGED herr
                  ELSE /\ herr' = r
                       /\ Goto("host", "ret")
                       /\ UNCHANGED acur
         ELSE /\ Goto("host", next)
              /\ UNCHANGED <<acur, herr>>
    /\ UNCHANGED <<package, recorder, config, params, flags, clock, counts, thr, vcur, closes,
                   slot, alocals, vlocals, hop, harg, hloc, hcalls, hseeks, snap,
                   hist>>

\* "self._video_container.seek(idx, stream=self._video_stream)"
SeekVideo(at, next) ==
    /\ pc["host"] = at
    /\ \E r \in SeekOutcomes(hloc.i, vc_closed) :
         IF r = "ok"
           THEN /\ vcur' = SeekCursor(hloc.i)
                /\ Goto("host", next)
                /\ UNCHANGED herr
           ELSE /\ herr' = r
                /\ Goto("host", "ret")
                /\ UNCHANGED vcur
    /\ UNCHANGED <<package, recorder, config, params, flags, clock, counts, thr, acur, closes,
                   slot, alocals, vlocals, hop, harg, hloc, hcalls, hseeks, snap,
                   hist>>

MoveSeekAudio == SeekAudio("m_seek_a", "m_seek_v")
MoveSeekVideo == SeekVideo("m_seek_v", "m_clock")

\* "with self._time_lock: self._time = _time; self._idx = idx"
\* "if was_playing: self.toggle_pause()"
MoveSetClock ==
    /\ pc["host"] = "m_clock"
    /\ time' = hloc.t
    /\ idx' = hloc.i
    /\ hloc' = [hloc EXCEPT !.ret = "ret"]
    /\ Goto("host", IF hloc.was THEN "tp_gate" ELSE "ret")
    /\ seek_pending' = IF hloc.was THEN seek_pending ELSE hloc.t
    /\ UNCHANGED <<package, recorder, config, params, flags, counts, thr, cursors, closes, slot,
                   alocals, vlocals, hop, harg, herr, hcalls, hseeks, snap, published,
                   stops_done, crossed>>

\* ------------------------------- move_frame, forward_frame, rewind_frame
\* "with self._time_lock: current_frame = self._idx"
ForwardFrameRead ==
    /\ pc["host"] = "ff_read"
    /\ hloc' = [hloc EXCEPT !.cur = idx]
    /\ Goto("host", "mf_begin")
    /\ UNCHANGED <<package, recorder, config, params, flags, clock, counts, thr, cursors, closes,
                   slot, alocals, vlocals, hop, harg, herr, hcalls, hseeks, snap,
                   hist>>

\* "self.move_frame(current_frane - frames)": the name current_frane is not
\* defined, so the call raises NameError before move_frame is entered.
RewindFrame ==
    /\ pc["host"] = "rf_read"
    /\ hloc' = [hloc EXCEPT !.cur = idx]
    /\ herr' = "NameError"
    /\ Goto("host", "ret")
    /\ UNCHANGED <<package, recorder, config, params, flags, clock, counts, thr, cursors, closes,
                   slot, alocals, vlocals, hop, harg, hcalls, hseeks, snap, hist>>

\* The frame number move_frame() is called with, as a clock index.
MoveFrameNumber ==
    IF hop = "forward_frame" THEN hloc.cur + harg * IdxScale
    ELSE harg * IdxScale

\* "self._duration * self._video_stream.time_base", as a clock index
DurationTimesTimeBase == (DurationMs * TickMs * IdxScale) \div 1000000

\* "idx = min(self._duration * time_base, max(0, frame_number))"
MoveFrameIdx(n) == Min(DurationTimesTimeBase, Max(0, n))

\* "_time = idx / self._video_stream.time_base", in ms
MoveFrameTime(i) == Ratio(i * TicksPerSec * 1000, IdxScale)

\* "if not self.paused: self.toggle_pause()"
MoveFrameBegin ==
    /\ pc["host"] = "mf_begin"
    /\ LET i == MoveFrameIdx(MoveFrameNumber)
       IN hloc' = [hloc EXCEPT !.i = i, !.t = MoveFrameTime(i),
                               !.ret = "mf_seek_a"]
    /\ Goto("host", IF ~paused THEN "tp_gate" ELSE "mf_seek_a")
    /\ UNCHANGED <<package, recorder, config, params, flags, clock, counts, thr, cursors, closes,
                   slot, alocals, vlocals, hop, harg, herr, hcalls, hseeks, snap,
                   hist>>

MoveFrameSeekAudio == SeekAudio("mf_seek_a", "mf_seek_v")
MoveFrameSeekVideo == SeekVideo("mf_seek_v", "mf_clock")

\* "with self._time_lock: self._time = _time; self._idx = idx"
\* "if self.paused: self.toggle_pause()"
MoveFrameSetClock ==
    /\ pc["host"] = "mf_clock"
    /\ time' = hloc.t
    /\ idx' = hloc.i
    /\ hloc' = [hloc EXCEPT !.ret = "ret"]
    /\ Goto("host", IF paused THEN "tp_gate" ELSE "ret")
    /\ UNCHANGED <<package, recorder, config, params, flags, counts, thr, cursors, closes, slot,
                   alocals, vlocals, hop, harg, herr, hcalls, hseeks, snap, hist>>

\* ------------------------------------------------ volume and speed setters
CallSetVolume == \E v \in VolumeArgs : Call("set_volume", v, "vol_set")
CallIncreaseVolume ==
    \E d \in VolumeDeltas : Call("increase_volume", d, "vol_set")
CallDecreaseVolume ==
    \E d \in VolumeDeltas : Call("decrease_volume", d, "vol_set")
CallSetSpeed == \E v \in SpeedArgs : Call("set_playback_speed", v, "spd_set")
CallIncreaseSpeed ==
    \E d \in SpeedDeltas : Call("increase_playback_speed", d, "spd_set")
CallDecreaseSpeed ==
    \E d \in SpeedDeltas : Call("decrease_playback_speed", d, "spd_set")

\* The value set_volume() is called with.
VolumeArg ==
    CASE hop = "increase_volume" -> volume + harg
      [] hop = "decrease_volume" -> volume - harg
      [] OTHER -> harg

\* "self._volume = max(0, min(1.0, volume))"
SetVolume ==
    /\ pc["host"] = "vol_set"
    /\ volume' = ClampVolume(VolumeArg)
    /\ Goto("host", "ret")
    /\ UNCHANGED <<package, recorder, config, speed, flags, clock, counts, thr,
                   cursors, closes, slot, alocals, vlocals, hlocals, hist>>

\* The value set_playback_speed() is called with.
SpeedArg ==
    CASE hop = "increase_playback_speed" -> speed + harg
      [] hop = "decrease_playback_speed" -> speed - harg
      [] OTHER -> harg

\* "self._speed = min(8.0, max(0.1, value))"
SetSpeed ==
    /\ pc["host"] = "spd_set"
    /\ speed' = ClampSpeed(SpeedArg)
    /\ Goto("host", "ret")
    /\ UNCHANGED <<package, recorder, config, volume, flags, clock, counts, thr,
                   cursors, closes, slot, alocals, vlocals, hlocals, hist>>

\* -------------------------------------------------------------- get_frame
\* get_frame(): size is None (0)
CallGetFrame == Call("get_frame", 0, "gf_lock")

\* get_frame(size) with the video's own size (1) or another one (2)
CallGetFrameSized == \E size \in FrameSizes : Call("get_frame", size, "gf_lock")

\* "with self._frame_lock:"
GetFrameLock ==
    /\ pc["host"] = "gf_lock"
    /\ frame_lock = "none"
    /\ frame_lock' = "host"
    /\ Goto("host", "gf_body")
    /\ UNCHANGED <<package, recorder, config, params, flags, clock, counts, thr,
                   cursors, closes, frame, frame_size, alocals, vlocals,
                   hlocals, hist>>

\* A get_frame that hands out the blank canvas whatever the slot holds.
GetFrameBlank(held) == -1

\* "return self._frame"
GetFrameResult(held) == held

\* "if size and self._size != size:" with size 0 for None, 1 for self._size
Rescales(size) == size # 0 /\ size # 1

\* "self._frame = pg.transform.scale(self._frame, size)": the size of the
\* surface the slot holds afterwards
ScaledSlot(held, size) == IF Rescales(size) THEN size ELSE held

\* "if size and self._size != size: self._frame = ..."; "return self._frame"
GetFrameBody ==
    /\ pc["host"] = "gf_body"
    /\ frame_size' = ScaledSlot(frame_size, harg)
    /\ hloc' = [hloc EXCEPT !.cur = GetFrameResult(frame),
                            !.size = frame_size']
    /\ frame_lock' = "none"
    /\ Goto("host", "ret")
    /\ UNCHANGED <<package, recorder, config, params, flags, clock, counts, thr,
                   cursors, closes, frame, alocals, vlocals, hop, harg, herr,
                   hcalls, hseeks, snap, hist>>

HostGetFrame == CallGetFrame \/ GetFrameLock \/ GetFrameBody

ParamCalls ==
    \/ CallSetVolume
    \/ CallIncreaseVolume
    \/ CallDecreaseVolume
    \/ CallSetSpeed
    \/ CallIncreaseSpeed
    \/ CallDecreaseSpeed
ParamSteps == SetVolume \/ SetSpeed

HostStart == CallStart \/ StartAudio \/ StartVideo \/ Return
HostPause == CallTogglePause \/ ToggleAgain \/ ToggleEvent \/ ToggleFlag
HostStop == CallStop \/ StopStep("host")
HostSeek ==
    \/ CallMove
    \/ CallForward
    \/ CallRewind
    \/ CallMoveFrame
    \/ CallForwardFrame
    \/ CallRewindFrame
    \/ ForwardRead
    \/ MoveBegin
    \/ MoveSeekAudio
    \/ MoveSeekVideo
    \/ MoveSetClock
    \/ ForwardFrameRead
    \/ RewindFrame
    \/ MoveFrameBegin
    \/ MoveFrameSeekAudio
    \/ MoveFrameSeekVideo
    \/ MoveFrameSetClock

\* A session whose host starts it, pauses and resumes it, and stops it.
Next == HostStart \/ HostPause \/ HostStop \/ AudioNext \/ VideoNext

Spec == Init /\ [][Next]_vars

\* A session that plays its stream once (loop = 1) or forever (loop = 0).
InitOnePass == Init /\ loop <= 1

\* Such a session under the scheduling the interpreter gives: a thread that
\* can take a step eventually takes one, and a stop() the host has entered
\* runs on.
FairSpec ==
    /\ InitOnePass
    /\ [][Next]_vars
    /\ WF_vars(AudioNext)
    /\ WF_vars(VideoNext)
    /\ WF_vars(StopStep("host"))

\* A session whose host starts it and pauses and resumes it; the loops end
\* it themselves.
NextPlay == HostStart \/ HostPause \/ AudioNext \/ VideoNext

SpecPlay == InitPlay /\ [][NextPlay]_vars

\* A session of one or two passes at the default speed, which its host
\* starts and pauses and resumes, its published frames recorded.
InitPause ==
    /\ Construct({DefaultSpeed}, TRUE) /\ NoRecorder /\ NoPackage
    /\ loop >= 1 /\ loop <= 2

SpecPause == InitPause /\ [][NextPlay]_vars

\* The same session, whose host also asks for the current frame.
NextFrame ==
    HostStart \/ HostPause \/ HostGetFrame \/ AudioNext \/ VideoNext

SpecFrame == InitPause /\ [][NextFrame]_vars

\* A session whose host starts it, pauses and resumes it, and seeks in it.
NextSeek == HostStart \/ HostPause \/ HostSeek \/ AudioNext \/ VideoNext

SpecSeek == Init /\ [][NextSeek]_vars

\* A session that plays its stream twice, whose host starts it and calls
\* move() and move_frame().
InitClock == Init /\ loop = 2

NextClock ==
    \/ HostStart
    \/ CallMove
    \/ CallMoveFrame
    \/ MoveBegin
    \/ MoveSeekAudio
    \/ MoveSeekVideo
    \/ MoveSetClock
    \/ MoveFrameBegin
    \/ MoveFrameSeekAudio
    \/ MoveFrameSeekVideo
    \/ MoveFrameSetClock
    \/ ToggleEvent
    \/ ToggleFlag
    \/ AudioNext
    \/ VideoNext

SpecClock == InitClock /\ [][NextClock]_vars

\* A session whose host starts it, pauses and resumes it and asks for the
\* current frame, at its own size or at another one.
NextScale ==
    \/ HostStart
    \/ HostPause
    \/ HostGetFrame
    \/ CallGetFrameSized
    \/ AudioNext
    \/ VideoNext

SpecScale == InitPause /\ [][NextScale]_vars

\* A session constructed with any speed and volume, whose host only calls
\* the volume and speed setters.
InitParams ==
    ConstructWith(SpeedArgs, VolumeArgs, FALSE) /\ NoRecorder /\ NoPackage

NextParams == ParamCalls \/ ParamSteps \/ Return

SpecParams == InitParams /\ [][NextParams]_vars

\* The transport operations other than rewind_frame, and their steps.
TransportOps ==
    {"toggle_pause", "set_volume", "increase_volume", "decrease_volume",
     "set_playback_speed", "increase_playback_speed",
     "decrease_playback_speed", "move", "forward", "rewind", "move_frame",
     "forward_frame"}
TransportCalls ==
    \/ CallTogglePause
    \/ ParamCalls
    \/ CallMove
    \/ CallForward
    \/ CallRewind
    \/ CallMoveFrame
    \/ CallForwardFrame
TransportSteps ==
    \/ ToggleEvent
    \/ ToggleFlag
    \/ ParamSteps
    \/ ForwardRead
    \/ MoveBegin
    \/ MoveSeekAudio
    \/ MoveSeekVideo
    \/ MoveSetClock
    \/ ForwardFrameRead
    \/ MoveFrameBegin
    \/ MoveFrameSeekAudio
    \/ MoveFrameSeekVideo
    \/ MoveFrameSetClock

\* A session whose host starts it, stops it, and calls transport operations
\* once the session is stopping or stopped.
NextStopped ==
    \/ HostStart
    \/ HostStop
    \/ (stopped /\ TransportCalls)
    \/ TransportSteps
    \/ AudioNext
    \/ VideoNext

SpecStopped == Init /\ [][NextStopped]_vars

\* ====================================================== the recorder ======
\* src/pgplayer/videorecorder.py (class VideoRecorder).  Three threads: the
\* host (start, write_frame, stop), the encode loop (_write_frame) and, when
\* audio is recorded, the capture loop (_audio_record).  Frames are numbered
\* 1, 2, ... in the order the host hands them over.  Time is counted in
\* 1/SubTicks of a frame period.

player == <<config, params, flags, clock, counts, thr, cursors, closes, slot,
            pc, alocals, vlocals, hlocals, hist>>

RGoto(t, p) == rpc' = [rpc EXCEPT ![t] = p]

\* A packet is muxed into the container: noted when the container is closed.
Mux == r_muxed_closed' = (r_muxed_closed \/ r_container_closed > 0)

\* ---------------------------------------------------------------- start()
\* start() is called at most once, and not on a stopped recorder.
RecCallStart ==
    /\ rpc["host"] = "idle"
    /\ r_frame_thread = "none"
    /\ ~r_stopped
    /\ RGoto("host", "rs_audio")
    /\ UNCHANGED <<package, player, r_aflushed,
                   rconfig, r_stopped, r_video_frames, rthr, rcloses,
                   rencode, r_elapsed, rhost, r_muxed_closed>>

\* "if self._record_audio: ... self._audio_thread.start()"
RecStartAudio ==
    /\ rpc["host"] = "rs_audio"
    /\ IF r_record_audio
         THEN /\ r_audio_thread' = "started"
              /\ rpc' = [rpc EXCEPT !["host"] = "rs_frame",
                                    !["capture"] = "c_start"]
         ELSE /\ UNCHANGED r_audio_thread
              /\ RGoto("host", "rs_frame")
    /\ UNCHANGED <<package, player, r_aflushed,
                   rconfig, r_stopped, r_video_frames, r_frame_thread,
                   rcloses, rencode, r_elapsed, rhost, r_muxed_closed>>

\* "self._frame_thread.start()"; the loop takes "start = time.perf_counter()"
RecStartFrame ==
    /\ rpc["host"] = "rs_frame"
    /\ r_frame_thread' = "started"
    /\ rpc' = [rpc EXCEPT !["host"] = "idle", !["encode"] = "e_while"]
    /\ UNCHANGED <<package, player, r_aflushed,
                   rconfig, r_stopped, r_video_frames, r_audio_thread,
                   rcloses, rencode, r_elapsed, rhost, r_muxed_closed>>

\* ---------------------------------------------------------- write_frame()
\* The host hands over its next frame.
RecCallWrite ==
    /\ rpc["host"] = "idle"
    /\ r_written < r_budget
    /\ r_written' = r_written + 1
    /\ r_frame' = r_written + 1
    /\ r_err' = "none"
    /\ RGoto("host", "w_put")
    /\ UNCHANGED <<package, player, r_aflushed,
                   rconfig, r_stopped, r_video_frames, rthr, rcloses,
                   rencode, r_elapsed, r_muxed_closed>>

\* Queue.put(item, False) on queue q raises queue.Full
QueueFull(q) == Len(q) >= QueueCap

\* "try: self._video_frames.put(frame, False)  except queue.Full:"
WritePut ==
    /\ rpc["host"] = "w_put"
    /\ IF QueueFull(r_video_frames)
         THEN /\ RGoto("host", "w_get")
              /\ UNCHANGED r_video_frames
         ELSE /\ r_video_frames' = Append(r_video_frames, r_frame)
              /\ RGoto("host", "w_ret")
    /\ UNCHANGED <<package, player, r_aflushed,
                   rconfig, r_stopped, rthr, rcloses, rencode,
                   r_elapsed, rhost, r_muxed_closed>>

\* An eviction that removes the newest entry.
EvictNewest(q) == SubSeq(q, 1, Len(q) - 1)

\* Queue.get_nowait() on a queue that is not empty: what it leaves
EvictOldest(q) == Tail(q)

\* "self._video_frames.get_nowait()": queue.Empty leaves write_frame when the
\* queue has been drained meanwhile.
WriteEvict ==
    /\ rpc["host"] = "w_get"
    /\ IF r_video_frames = <<>>
         THEN /\ r_err' = "Empty"
              /\ RGoto("host", "w_ret")
              /\ UNCHANGED r_video_frames
         ELSE /\ r_video_frames' = EvictOldest(r_video_frames)
              /\ RGoto("host", "w_put2")
              /\ UNCHANGED r_err
    /\ UNCHANGED <<package, player, r_aflushed,
                   rconfig, r_stopped, rthr, rcloses, rencode,
                   r_elapsed, r_written, r_frame, r_muxed_closed>>

\* "self._video_frames.put(frame, False)" of the except branch
WritePutAgain ==
    /\ rpc["host"] = "w_put2"
    /\ IF QueueFull(r_video_frames)
         THEN /\ r_err' = "Full"
              /\ UNCHANGED r_video_frames
         ELSE /\ r_video_frames' = Append(r_video_frames, r_frame)
              /\ UNCHANGED r_err
    /\ RGoto("host", "w_ret")
    /\ UNCHANGED <<package, player, r_aflushed,
                   rconfig, r_stopped, rthr, rcloses, rencode,
                   r_elapsed, r_written, r_frame, r_muxed_closed>>

\* write_frame returns (or its exception reaches the caller).
WriteReturn ==
    /\ rpc["host"] = "w_ret"
    /\ r_frame' = 0
    /\ r_err' = "none"
    /\ RGoto("host", "idle")
    /\ UNCHANGED <<package, player, r_aflushed,
                   rconfig, r_stopped, r_video_frames, rthr, rcloses,
                   rencode, r_elapsed, r_written, r_muxed_closed>>

\* ----------------------------------------------------------------- stop()
\* "self._stopped = True"; stop() is called once.
RecCallStop ==
    /\ rpc["host"] = "idle"
    /\ ~r_stopped
    /\ r_stopped' = TRUE
    /\ RGoto("host", "rstop_join_f")
    /\ UNCHANGED <<package, player, r_aflushed,
                   rconfig, r_video_frames, rthr, rcloses, rencode,
                   r_elapsed, rhost, r_muxed_closed>>

\* A join that does not wait for the loop.
RecJoinNoWait(started, at) == TRUE

\* "if i: i.join()": returns at once for a thread that was never created,
\* else when the loop has ended.
RecJoinReturns(started, at) == started = "none" \/ at = "done"

RecJoinFrame ==
    /\ rpc["host"] = "rstop_join_f"
    /\ RecJoinReturns(r_frame_thread, rpc["encode"])
    /\ RGoto("host", "rstop_join_a")
    /\ UNCHANGED <<package, player, r_aflushed,
                   rconfig, r_stopped, r_video_frames, rthr, rcloses,
                   rencode, r_elapsed, rhost, r_muxed_closed>>

RecJoinAudio ==
    /\ rpc["host"] = "rstop_join_a"
    /\ RecJoinReturns(r_audio_thread, rpc["capture"])
    /\ RGoto("host", "rstop_close")
    /\ UNCHANGED <<package, player, r_aflushed,
                   rconfig, r_stopped, r_video_frames, rthr, rcloses,
                   rencode, r_elapsed, rhost, r_muxed_closed>>

\* "if self._record_audio: self._input_stream.close()"
\* "self._container.close()"
RecClose ==
    /\ rpc["host"] = "rstop_close"
    /\ r_input_closed' = IF r_record_audio THEN r_input_closed + 1
                         ELSE r_input_closed
    /\ r_container_closed' = r_container_closed + 1
    /\ RGoto("host", "idle")
    /\ UNCHANGED <<package, player, r_aflushed,
                   rconfig, r_stopped, r_video_frames, rthr, rencode,
                   r_elapsed, rhost, r_muxed_closed>>

\* ------------------------------------------------------------ _write_frame
\* "while not self._stopped:"
EncodeWhile ==
    /\ rpc["encode"] = "e_while"
    /\ RGoto("encode", IF r_stopped THEN "e_flush" ELSE "e_chk")
    /\ UNCHANGED <<package, player, r_aflushed,
                   rconfig, r_stopped, r_video_frames, rthr, rcloses,
                   rencode, r_elapsed, rhost, r_muxed_closed>>

\* "if self._stopped: break"
EncodeCheckStopped ==
    /\ rpc["encode"] = "e_chk"
    /\ RGoto("encode", IF r_stopped THEN "e_flush" ELSE "e_get")
    /\ UNCHANGED <<package, player, r_aflushed,
                   rconfig, r_stopped, r_video_frames, rthr, rcloses,
                   rencode, r_elapsed, rhost, r_muxed_closed>>

\* "timeout=0.1" of the get, in clock steps
GetTimeout == (RecFps * SubTicks) \div 10

\* The times "self._video_frames.get(timeout=0.1)" can take on the
\* perf_counter clock: the whole timeout when it ends with queue.Empty, and
\* when it returns a frame the wait till the frame was put, none when the
\* frame was there already.
GetTimes(empty, lag) ==
    IF empty THEN GetTimeout..(GetTimeout + lag) ELSE 0..GetTimeout

\* "try: surf = self._video_frames.get(timeout=0.1)
\*  except queue.Empty: continue"
EncodeGet ==
    /\ rpc["encode"] = "e_get"
    /\ IF r_video_frames = <<>>
         THEN /\ ~r_clock \/ r_stopped \/ r_elapsed < MaxElapsed
              /\ RGoto("encode", "e_while")
              /\ UNCHANGED <<r_video_frames, r_surf>>
         ELSE /\ r_surf' = Head(r_video_frames)
              /\ r_video_frames' = Tail(r_video_frames)
              /\ RGoto("encode", "e_stamp")
    /\ IF r_clock
         THEN \E d \in GetTimes(r_video_frames = <<>>, r_lag) :
                r_elapsed' = r_elapsed + d
         ELSE UNCHANGED r_elapsed
    /\ UNCHANGED <<package, player, r_aflushed,
                   rconfig, r_stopped, rthr, rcloses, r_pts,
                   r_last_pts, r_flushed, rhost, r_muxed_closed>>

\* "int((time.perf_counter() - start) * float(self._fps))" at `elapsed`
RecPts(elapsed) == elapsed \div SubTicks

\* The scale and the conversion, then
\* "now = int((time.perf_counter() - start) * float(self._fps))"
\* "frame.pts = now"
EncodeStamp ==
    /\ rpc["encode"] = "e_stamp"
    /\ IF r_clock
         THEN \E d \in 0..r_lag :
                /\ r_elapsed' = r_elapsed + d
                /\ r_pts' = RecPts(r_elapsed + d)
         ELSE UNCHANGED <<r_elapsed, r_pts>>
    /\ RGoto("encode", "e_mux")
    /\ UNCHANGED <<package, player, r_aflushed,
                   rconfig, r_stopped, r_video_frames, rthr, rcloses,
                   r_surf, r_last_pts, r_flushed, rhost, r_muxed_closed>>

\* "for i in self._video_stream.encode(frame): self._container.mux(i)"
EncodeMux ==
    /\ rpc["encode"] = "e_mux"
    /\ r_last_pts' = IF r_clock THEN r_pts ELSE r_last_pts
    /\ Mux
    /\ RGoto("encode", "e_sleep")
    /\ UNCHANGED <<package, player, r_aflushed,
                   rconfig, r_stopped, r_video_frames, rthr, rcloses,
                   r_surf, r_pts, r_flushed, r_elapsed, rhost>>

\* "time.sleep(float(frame.time_base))": the times the sleep can take on the
\* perf_counter clock.  The wait is counted in ticks of the platform's timer,
\* so it can end up to SleepEarly before the period is over, and the
\* scheduler can add up to `lag`.
SleepTimes(period, lag) == (period - SleepEarly)..(period + lag)

EncodeSleep ==
    /\ rpc["encode"] = "e_sleep"
    /\ IF r_clock
         THEN \E d \in SleepTimes(SubTicks, r_lag) :
                r_elapsed' = r_elapsed + d
         ELSE UNCHANGED r_elapsed
    /\ r_surf' = 0
    /\ RGoto("encode", "e_while")
    /\ UNCHANGED <<package, player, r_aflushed,
                   rconfig, r_stopped, r_video_frames, rthr, rcloses,
                   r_pts, r_last_pts, r_flushed, rhost, r_muxed_closed>>

\* "for i in self._video_stream.encode(): self._container.mux(i)"
EncodeFlush ==
    /\ rpc["encode"] = "e_flush"
    /\ r_flushed' = TRUE
    /\ Mux
    /\ RGoto("encode", "done")
    /\ UNCHANGED <<package, player, r_aflushed,
                   rconfig, r_stopped, r_video_frames, rthr, rcloses,
                   r_surf, r_pts, r_last_pts, r_elapsed, rhost>>

EncodeNext ==
    \/ EncodeWhile
    \/ EncodeCheckStopped
    \/ EncodeGet
    \/ EncodeStamp
    \/ EncodeMux
    \/ EncodeSleep
    \/ EncodeFlush

\* ------------------------------------------------------------ _audio_record
\* "self._input_stream.start()"
CaptureStart ==
    /\ rpc["capture"] = "c_start"
    /\ RGoto("capture", "c_while")
    /\ UNCHANGED <<package, player, r_aflushed,
                   rconfig, r_stopped, r_video_frames, rthr, rcloses,
                   rencode, r_elapsed, rhost, r_muxed_closed>>

\* "while not self._stopped:"
CaptureWhile ==
    /\ rpc["capture"] = "c_while"
    /\ RGoto("capture", IF r_stopped THEN "done" ELSE "c_read")
    /\ UNCHANGED <<package, player, r_aflushed,
                   rconfig, r_stopped, r_video_frames, rthr, rcloses,
                   rencode, r_elapsed, rhost, r_muxed_closed>>

\* "data, overflowed = self._input_stream.read(1024)"
\* "if overflowed: raise OverflowError(...)" ends the loop
CaptureRead ==
    /\ rpc["capture"] = "c_read"
    /\ \E overflowed \in BOOLEAN :
         RGoto("capture", IF overflowed THEN "done" ELSE "c_mux")
    /\ UNCHANGED <<package, player, r_aflushed,
                   rconfig, r_stopped, r_video_frames, rthr, rcloses,
                   rencode, r_elapsed, rhost, r_muxed_closed>>

\* "for i in self._audio_stream.encode(frame): self._container.mux(i)".
\* An encoder that has been flushed is at its end of stream: handing it a
\* frame raises in the codec (and ends the thread) or is accepted, as the
\* codec decides.
CaptureEncode ==
    /\ rpc["capture"] = "c_mux"
    /\ \E raises \in (IF r_aflushed THEN BOOLEAN ELSE {FALSE}) :
         IF raises
           THEN /\ RGoto("capture", "done")
                /\ UNCHANGED r_muxed_closed
           ELSE /\ RGoto("capture", "c_flush")
                /\ Mux
    /\ UNCHANGED <<package, player, r_aflushed,
                   rconfig, r_stopped, r_video_frames, rthr, rcloses,
                   rencode, r_elapsed, rhost>>

\* "for i in self._audio_stream.encode(): self._container.mux(i)", the last
\* statement of the while body
CaptureFlush ==
    /\ rpc["capture"] = "c_flush"
    /\ r_aflushed' = TRUE
    /\ Mux
    /\ RGoto("capture", "c_while")
    /\ UNCHANGED <<package, player,
                   rconfig, r_stopped, r_video_frames, rthr, rcloses,
                   rencode, r_elapsed, rhost>>

CaptureNext ==
    \/ CaptureStart
    \/ CaptureWhile
    \/ CaptureRead
    \/ CaptureEncode
    \/ CaptureFlush

RecStart == RecCallStart \/ RecStartAudio \/ RecStartFrame
RecWrite ==
    RecCallWrite \/ WritePut \/ WriteEvict \/ WritePutAgain \/ WriteReturn
RecStop == RecCallStop \/ RecJoinFrame \/ RecJoinAudio \/ RecClose

\* A player nobody uses.
NoPlayer ==
    Construct({DefaultSpeed}, FALSE) /\ loop = 1 /\ ~has_audio /\ ~play_audio

\* A recorder handed more frames than its queue holds; the clock is not
\* followed.
InitRec ==
    NoPlayer /\ NoPackage /\ RecConstruct(BOOLEAN, {}, QueueCap + ExtraFrames)

NextRec == RecStart \/ RecWrite \/ RecStop \/ EncodeNext \/ CaptureNext

SpecRec == InitRec /\ [][NextRec]_vars

\* A recorder handed a few frames, the clock followed, every step delayed by
\* up to MaxLag.
InitRecClock ==
    NoPlayer /\ NoPackage /\ RecConstruct(BOOLEAN, 0..MaxLag, ClockFrames)

\* So few frames never fill the queue: write_frame is its first put.
NextRecClock ==
    \/ RecStart
    \/ RecCallWrite
    \/ WritePut
    \/ WriteReturn
    \/ RecStop
    \/ EncodeNext
    \/ CaptureNext

SpecRecClock == InitRecClock /\ [][NextRecClock]_vars

\* ===================================================== package VideoPlayer
\* src/pgplayer/__init__.py: the player that reads raw frames and samples
\* from two ffmpeg processes.
PGoto(t, p) == ppc' = [ppc EXCEPT ![t] = p]

\* The host calls a public method.
PkgCall(op, at) ==
    /\ ppc["host"] \in {"idle", "ret"}
    /\ p_calls < MaxCalls
    /\ p_calls' = p_calls + 1
    /\ p_hop' = op
    /\ PGoto("host", at)
    /\ UNCHANGED <<player, recorder, p_loop, pflags, p_stream_closed, pslot,
                   pcounts, pthr, ppipes>>

\* ------------------------------------------------------------------ play()
\* "def play(self, size=None)", called once.
PkgCallPlay ==
    /\ p_video_thread = "none"
    /\ PkgCall("play", "pl_v")

\* "self.video_thread.start()"
PkgPlayVideo ==
    /\ ppc["host"] = "pl_v"
    /\ p_video_thread' = "started"
    /\ ppc' = [ppc EXCEPT !["host"] = "pl_a", !["video"] = "kv_while"]
    /\ UNCHANGED <<player, recorder, p_loop, pflags, p_stream_closed, pslot,
                   pcounts, p_audio_thread, ppipes, phost>>

\* "self.audio_thread.start()"
PkgPlayAudio ==
    /\ ppc["host"] = "pl_a"
    /\ p_audio_thread' = "started"
    /\ ppc' = [ppc EXCEPT !["host"] = "ret", !["audio"] = "ka_start"]
    /\ UNCHANGED <<player, recorder, p_loop, pflags, p_stream_closed, pslot,
                   pcounts, p_video_thread, ppipes, phost>>

\* ---------------------------------------------------------- toggle_pause()
PkgCallTogglePause == PkgCall("toggle_pause", "pt_gate")

\* "if self.pause_event.is_set(): self.pause_event.clear() else: .set()"
PkgToggleEvent ==
    /\ ppc["host"] = "pt_gate"
    /\ p_pause_event' = ~p_pause_event
    /\ PGoto("host", IF p_pause_event THEN "pt_true" ELSE "pt_false")
    /\ UNCHANGED <<player, recorder, p_loop, p_stopped, p_paused,
                   p_stream_closed, pslot, pcounts, pthr, ppipes, phost>>

\* "self.paused = True" or "self.paused = False"
PkgToggleFlag ==
    /\ ppc["host"] \in {"pt_true", "pt_false"}
    /\ p_paused' = (ppc["host"] = "pt_true")
    /\ PGoto("host", "ret")
    /\ UNCHANGED <<player, recorder, p_loop, p_stopped, p_pause_event,
                   p_stream_closed, pslot, pcounts, pthr, ppipes, phost>>

\* -------------------------------------------------------------- get_frame()
PkgCallGetFrame == PkgCall("get_frame", "pg_lock")

\* "with self.frame_lock:"
PkgGetLock ==
    /\ ppc["host"] = "pg_lock"
    /\ p_frame_lock = "none"
    /\ p_frame_lock' = "host"
    /\ PGoto("host", "pg_used")
    /\ UNCHANGED <<player, recorder, p_loop, pflags, p_stream_closed, p_frame,
                   p_flag, p_fresh, pcounts, pthr, ppipes, phost>>

\* "self.frame[1] = 'used'; return ..." in either branch, leaving the lock
PkgGetUsed ==
    /\ ppc["host"] = "pg_used"
    /\ p_flag' = "used"
    /\ p_fresh' = FALSE
    /\ p_frame_lock' = "none"
    /\ PGoto("host", "ret")
    /\ UNCHANGED <<player, recorder, p_loop, pflags, p_stream_closed, p_frame,
                   pcounts, pthr, ppipes, phost>>

\* ------------------------------------------------------------------ stop()
PkgCallStop == PkgCall("stop", "ps_chk")

\* The state of the thread object that stop() joins.
PkgThreadState(t) == IF t = "audio" THEN p_audio_thread ELSE p_video_thread

\* "if not self.stopped:"
PkgStopCheck(t) ==
    /\ ppc[t] = "ps_chk"
    /\ PGoto(t, IF p_stopped THEN "ps_ret" ELSE "ps_set")
    /\ UNCHANGED <<player, recorder, p_loop, pflags, p_stream_closed, pslot,
                   pcounts, pthr, ppipes, phost>>

\* "self.stopped = True"
PkgStopSetFlag(t) ==
    /\ ppc[t] = "ps_set"
    /\ p_stopped' = TRUE
    /\ PGoto(t, "ps_close")
    /\ UNCHANGED <<player, recorder, p_loop, p_paused, p_pause_event,
                   p_stream_closed, pslot, pcounts, pthr, ppipes, phost>>

\* "self.stream.close()"
PkgStopClose(t) ==
    /\ ppc[t] = "ps_close"
    /\ p_stream_closed' = TRUE
    /\ PGoto(t, "ps_kill")
    /\ UNCHANGED <<player, recorder, p_loop, pflags, pslot, pcounts, pthr,
                   ppipes, phost>>

\* "for i in [self.audio_process, self.video_process]: i.kill()"
PkgStopKill(t) ==
    /\ ppc[t] = "ps_kill"
    /\ p_akilled' = TRUE
    /\ p_vkilled' = TRUE
    /\ PGoto(t, "ps_join_a")
    /\ UNCHANGED <<player, recorder, p_loop, pflags, p_stream_closed, pslot,
                   pcounts, pthr, p_vread, p_aread, p_buf, phost>>

\* "i.join()" inside "try: ... except Exception: pass", called by thread c
\* for thread t: joining None or the calling thread raises and is skipped;
\* otherwise join returns when t has ended.
PkgJoinReturns(c, t) ==
    \/ PkgThreadState(t) # "started"
    \/ c = t
    \/ ppc[t] = "done"

PkgStopJoinAudio(t) ==
    /\ ppc[t] = "ps_join_a"
    /\ PkgJoinReturns(t, "audio")
    /\ PGoto(t, "ps_join_v")
    /\ UNCHANGED <<player, recorder, p_loop, pflags, p_stream_closed, pslot,
                   pcounts, pthr, ppipes, phost>>

PkgStopJoinVideo(t) ==
    /\ ppc[t] = "ps_join_v"
    /\ PkgJoinReturns(t, "video")
    /\ PGoto(t, "ps_ret")
    /\ UNCHANGED <<player, recorder, p_loop, pflags, p_stream_closed, pslot,
                   pcounts, pthr, ppipes, phost>>

\* stop() returns: to the host, or to the loop that called it, which breaks
\* out of its outer loop and ends.
PkgStopReturn(t) ==
    /\ ppc[t] = "ps_ret"
    /\ PGoto(t, IF t = "host" THEN "ret" ELSE "done")
    /\ UNCHANGED <<player, recorder, p_loop, pflags, p_stream_closed, pslot,
                   pcounts, pthr, ppipes, phost>>

PkgStopStep(t) ==
    \/ PkgStopCheck(t)
    \/ PkgStopSetFlag(t)
    \/ PkgStopClose(t)
    \/ PkgStopKill(t)
    \/ PkgStopJoinAudio(t)
    \/ PkgStopJoinVideo(t)
    \/ PkgStopReturn(t)

\* ------------------------------------------------------------ _play_video
\* "if self.loop > 0 and self.<x>_loop_count >= self.loop:"
PkgLastPass(count, l) == l > 0 /\ count >= l

\* the outer "while not self.stopped:"
PkgVideoWhile ==
    /\ ppc["video"] = "kv_while"
    /\ p_stopped \/ p_loop # 0 \/ p_video_loop_count < MaxPasses
    /\ PGoto("video", IF p_stopped THEN "done" ELSE "kv_spawn")
    /\ UNCHANGED <<player, recorder, p_loop, pflags, p_stream_closed, pslot,
                   pcounts, pthr, ppipes, phost>>

\* "self.video_process = ffmpeg.input(...).output(...).run_async(...)": the
\* process of the pass is started and takes the place of the one before.
PkgVideoSpawn ==
    /\ ppc["video"] = "kv_spawn"
    /\ p_vread' = 0
    /\ p_vkilled' = FALSE
    /\ PGoto("video", "kv_inner")
    /\ UNCHANGED <<player, recorder, p_loop, pflags, p_stream_closed, pslot,
                   pcounts, pthr, p_aread, p_akilled, p_buf, phost>>

\* the inner "while not self.stopped:"
PkgVideoInner ==
    /\ ppc["video"] = "kv_inner"
    /\ PGoto("video", IF p_stopped THEN "kv_fin" ELSE "kv_wait")
    /\ UNCHANGED <<player, recorder, p_loop, pflags, p_stream_closed, pslot,
                   pcounts, pthr, ppipes, phost>>

\* "self.pause_event.wait()"
PkgVideoWait ==
    /\ ppc["video"] = "kv_wait"
    /\ p_pause_event
    /\ PGoto("video", "kv_read")
    /\ UNCHANGED <<player, recorder, p_loop, pflags, p_stream_closed, pslot,
                   pcounts, pthr, ppipes, phost>>

\* What a read of the pipe of an ffmpeg process returns after `read` whole
\* items: the pipe of a process that has written everything is at its end
\* ("eof"); a running process writes the next item ("item"); of a killed
\* process the pipe still holds what it wrote before it was killed: the next
\* item, a part of it when `parts` ("short"), or nothing.
PipeRead(killed, read, parts) ==
    IF read >= NumFrames THEN {"eof"}
    ELSE IF ~killed THEN {"item"}
    ELSE IF parts THEN {"eof", "item", "short"}
    ELSE {"eof", "item"}

\* buf when the read returned a part of a frame
ShortBuf == 0 - 2

\* "buf = self.video_process.stdout.read(self.w * self.h * 3)"
\* "if not buf: break"
PkgVideoRead ==
    /\ ppc["video"] = "kv_read"
    /\ \E r \in PipeRead(p_vkilled, p_vread, TRUE) :
         CASE r = "eof" ->
                /\ PGoto("video", "kv_fin")
                /\ UNCHANGED <<p_vread, p_buf>>
           [] r = "item" ->
                /\ p_buf' = p_vread
                /\ p_vread' = p_vread + 1
                /\ PGoto("video", "kv_delay")
           [] r = "short" ->
                /\ p_buf' = ShortBuf
                /\ p_vread' = NumFrames
                /\ PGoto("video", "kv_delay")
    /\ UNCHANGED <<player, recorder, p_loop, pflags, p_stream_closed, pslot,
                   pcounts, pthr, p_aread, p_vkilled, p_akilled, phost>>

\* "now = time.perf_counter() - self.start; delay = pts - now": the frame is
\* dropped when it is more than 0.2 s late ("elif delay < -0.2: continue"),
\* which the wall clock decides.  Then
\* "frame = np.frombuffer(buf, np.uint8).reshape(self.h, self.w, 3)": a part
\* of a frame cannot be reshaped, the ValueError ends the thread after
\* "finally: self.video_process.kill()".
PkgVideoDelay ==
    /\ ppc["video"] = "kv_delay"
    /\ \E late \in BOOLEAN :
         IF late
           THEN /\ p_buf' = -1
                /\ PGoto("video", "kv_inner")
                /\ UNCHANGED p_vkilled
           ELSE IF p_buf = ShortBuf
             THEN /\ p_buf' = -1
                  /\ p_vkilled' = TRUE
                  /\ PGoto("video", "done")
             ELSE /\ UNCHANGED <<p_buf, p_vkilled>>
                  /\ PGoto("video", "kv_lock")
    /\ UNCHANGED <<player, recorder, p_loop, pflags, p_stream_closed, pslot,
                   pcounts, pthr, p_vread, p_aread, p_akilled, phost>>

\* "with self.frame_lock:"
PkgVideoLock ==
    /\ ppc["video"] = "kv_lock"
    /\ p_frame_lock = "none"
    /\ p_frame_lock' = "video"
    /\ PGoto("video", "kv_store")
    /\ UNCHANGED <<player, recorder, p_loop, pflags, p_stream_closed, p_frame,
                   p_flag, p_fresh, pcounts, pthr, ppipes, phost>>

\* A loop that stores the frame already marked as read.
PkgStoredUsed == "used"

\* "self.frame = [<surface>, 'unused']": the flag the loop stores
PkgStoredFlag == "unused"

\* "self.frame = [...]", leaving the lock, and the pacing sleep
PkgVideoStore ==
    /\ ppc["video"] = "kv_store"
    /\ p_frame' = p_buf
    /\ p_flag' = PkgStoredFlag
    /\ p_fresh' = TRUE
    /\ p_frame_lock' = "none"
    /\ p_buf' = -1
    /\ PGoto("video", "kv_inner")
    /\ UNCHANGED <<player, recorder, p_loop, pflags, p_stream_closed, pcounts,
                   pthr, p_vread, p_aread, p_vkilled, p_akilled, phost>>

\* "finally: self.video_process.kill()", "self.video_loop_count += 1" and the
\* test that follows: stop() and break, or another pass
PkgVideoCount ==
    /\ ppc["video"] = "kv_fin"
    /\ p_vkilled' = TRUE
    /\ p_video_loop_count' = p_video_loop_count + 1
    /\ PGoto("video", IF PkgLastPass(p_video_loop_count', p_loop)
                        THEN "ps_chk" ELSE "kv_while")
    /\ UNCHANGED <<player, recorder, p_loop, pflags, p_stream_closed, pslot,
                   p_audio_loop_count, pthr, p_vread, p_aread, p_akilled,
                   p_buf, phost>>

PkgVideoNext ==
    \/ PkgVideoWhile
    \/ PkgVideoSpawn
    \/ PkgVideoInner
    \/ PkgVideoWait
    \/ PkgVideoRead
    \/ PkgVideoDelay
    \/ PkgVideoLock
    \/ PkgVideoStore
    \/ PkgVideoCount
    \/ PkgStopStep("video")

\* ------------------------------------------------------------ _play_audio
\* "self.stream.start()": starting a closed device raises and ends the thread.
PkgAudioStart ==
    /\ ppc["audio"] = "ka_start"
    /\ PGoto("audio", IF p_stream_closed THEN "done" ELSE "ka_while")
    /\ UNCHANGED <<player, recorder, p_loop, pflags, p_stream_closed, pslot,
                   pcounts, pthr, ppipes, phost>>

\* the outer "while not self.stopped:"
PkgAudioWhile ==
    /\ ppc["audio"] = "ka_while"
    /\ p_stopped \/ p_loop # 0 \/ p_audio_loop_count < MaxPasses
    /\ PGoto("audio", IF p_stopped THEN "done" ELSE "ka_spawn")
    /\ UNCHANGED <<player, recorder, p_loop, pflags, p_stream_closed, pslot,
                   pcounts, pthr, ppipes, phost>>

\* "self.audio_process = ffmpeg.input(...).output(...).run_async(...)": the
\* process of the pass is started and takes the place of the one before.
PkgAudioSpawn ==
    /\ ppc["audio"] = "ka_spawn"
    /\ p_aread' = 0
    /\ p_akilled' = FALSE
    /\ PGoto("audio", "ka_inner")
    /\ UNCHANGED <<player, recorder, p_loop, pflags, p_stream_closed, pslot,
                   pcounts, pthr, p_vread, p_vkilled, p_buf, phost>>

\* the inner "while not self.stopped:"
PkgAudioInner ==
    /\ ppc["audio"] = "ka_inner"
    /\ PGoto("audio", IF p_stopped THEN "ka_fin" ELSE "ka_wait")
    /\ UNCHANGED <<player, recorder, p_loop, pflags, p_stream_closed, pslot,
                   pcounts, pthr, ppipes, phost>>

\* "self.pause_event.wait()"
PkgAudioWait ==
    /\ ppc["audio"] = "ka_wait"
    /\ p_pause_event
    /\ PGoto("audio", "ka_closed")
    /\ UNCHANGED <<player, recorder, p_loop, pflags, p_stream_closed, pslot,
                   pcounts, pthr, ppipes, phost>>

\* "if self.stream.closed: self.stopped = True"
PkgAudioClosed ==
    /\ ppc["audio"] = "ka_closed"
    /\ p_stopped' = (p_stopped \/ p_stream_closed)
    /\ PGoto("audio", "ka_read")
    /\ UNCHANGED <<player, recorder, p_loop, p_paused, p_pause_event,
                   p_stream_closed, pslot, pcounts, pthr, ppipes, phost>>

\* "buf = self.audio_process.stdout.read(1024 * 32); if not buf: break" and
\* the scaling of the samples by the volume
PkgAudioRead ==
    /\ ppc["audio"] = "ka_read"
    /\ \E r \in PipeRead(p_akilled, p_aread, FALSE) :
         IF r = "eof"
           THEN /\ PGoto("audio", "ka_fin")
                /\ UNCHANGED p_aread
           ELSE /\ p_aread' = p_aread + 1
                /\ PGoto("audio", "ka_test")
    /\ UNCHANGED <<player, recorder, p_loop, pflags, p_stream_closed, pslot,
                   pcounts, pthr, p_vread, p_vkilled, p_akilled, p_buf, phost>>

\* "if not self.stream.closed:": a closed stream skips the write
PkgAudioTest ==
    /\ ppc["audio"] = "ka_test"
    /\ PGoto("audio", IF p_stream_closed THEN "ka_inner" ELSE "ka_write")
    /\ UNCHANGED <<player, recorder, p_loop, pflags, p_stream_closed, pslot,
                   pcounts, pthr, ppipes, phost>>

\* "self.stream.write(frame)": a stream closed since the test raises
\* PortAudioError; "finally: self.audio_process.kill()" runs and the thread
\* ends without counting the pass.
PkgAudioWrite ==
    /\ ppc["audio"] = "ka_write"
    /\ IF p_stream_closed
         THEN /\ p_akilled' = TRUE
              /\ PGoto("audio", "done")
         ELSE /\ PGoto("audio", "ka_inner")
              /\ UNCHANGED p_akilled
    /\ UNCHANGED <<player, recorder, p_loop, pflags, p_stream_closed, pslot,
                   pcounts, pthr, p_vread, p_aread, p_vkilled, p_buf, phost>>

\* "finally: self.audio_process.kill()", "self.audio_loop_count += 1" and the
\* test that follows
PkgAudioCount ==
    /\ ppc["audio"] = "ka_fin"
    /\ p_akilled' = TRUE
    /\ p_audio_loop_count' = p_audio_loop_count + 1
    /\ PGoto("audio", IF PkgLastPass(p_audio_loop_count', p_loop)
                        THEN "ps_chk" ELSE "ka_while")
    /\ UNCHANGED <<player, recorder, p_loop, pflags, p_stream_closed, pslot,
                   p_video_loop_count, pthr, p_vread, p_aread, p_vkilled,
                   p_buf, phost>>

PkgAudioNext ==
    \/ PkgAudioStart
    \/ PkgAudioWhile
    \/ PkgAudioSpawn
    \/ PkgAudioInner
    \/ PkgAudioWait
    \/ PkgAudioClosed
    \/ PkgAudioRead
    \/ PkgAudioTest
    \/ PkgAudioWrite
    \/ PkgAudioCount
    \/ PkgStopStep("audio")

\* ------------------------------------------------- package specifications
PkgHostPlay == PkgCallPlay \/ PkgPlayVideo \/ PkgPlayAudio
PkgHostPause == PkgCallTogglePause \/ PkgToggleEvent \/ PkgToggleFlag
PkgHostGetFrame == PkgCallGetFrame \/ PkgGetLock \/ PkgGetUsed
PkgHostStop == PkgCallStop \/ PkgStopStep("host")

\* A package player whose host plays it, pauses and resumes it, reads its
\* frame and stops it.
InitPkg == NoPlayer /\ NoRecorder /\ PkgConstruct(PkgLoops)

NextPkg ==
    \/ PkgHostPlay
    \/ PkgHostPause
    \/ PkgHostGetFrame
    \/ PkgHostStop
    \/ PkgAudioNext
    \/ PkgVideoNext

SpecPkg == InitPkg /\ [][NextPkg]_vars

\* The same player under the scheduling the interpreter gives: a thread that
\* can take a step eventually takes one, and a stop() the host has entered
\* runs on.
FairSpecPkg ==
    /\ InitPkg
    /\ [][NextPkg]_vars
    /\ WF_vars(PkgAudioNext)
    /\ WF_vars(PkgVideoNext)
    /\ WF_vars(PkgStopStep("host"))


\* ================================================================ claims
AnyClosed == ac_closed > 0 \/ st_closed > 0 \/ vc_closed > 0

\* Thread c waits in join() for thread t, which has not ended.
JoinBlocked(c, t) ==
    /\ pc[c] = (IF t = "audio" THEN "s_join_a" ELSE "s_join_v")
    /\ ~JoinReturns(c, t)

\* C1: stop() invoked from two threads never deadlocks: no state is reached
\* in which the audio loop waits in join() for the video loop while the
\* video loop waits in join() for the audio loop.
C1_StopNeverDeadlocks ==
    ~(JoinBlocked("audio", "video") /\ JoinBlocked("video", "audio"))

\* The host has called stop() on a paused session whose loops wait at the gate.
PausedStopCalled ==
    /\ pc["host"] = "s_chk"
    /\ ~stopped
    /\ paused
    /\ ~pause_event
    /\ pc["video"] = "v_wait"
    /\ has_audio => pc["audio"] = "a_wait"

\* The host's stop() has returned and no decode loop is left running.
StopReturned ==
    /\ pc["host"] = "ret"
    /\ hop = "stop"
    /\ pc["audio"] \in {"idle", "done"}
    /\ pc["video"] \in {"idle", "done"}

\* C2: when the host calls stop() on a paused session whose decode loops
\* are parked at the gate wait, the gate is set whenever the host is at a
\* join, and the call leads to stop() having returned with both loops ended.
C2_PausedStopReturns ==
    /\ [](pc["host"] \in {"s_join_a", "s_join_v"} => pause_event)
    /\ (PausedStopCalled ~> StopReturned)

\* Witness of C2: a stop() called on a paused, parked session has returned
\* after closing the handles, with no decode loop left.
C2_Witness ==
    /\ StopReturned
    /\ snap.set /\ snap.parked /\ snap.obs.paused /\ ~snap.obs.gate
    /\ ~snap.obs.stopped
    /\ video_thread = "started" /\ audio_thread = "started"
    /\ vc_closed > 0

\* C3 as stated: whenever a handle has been closed, both decode loops have
\* fully exited.
C3_JoinBeforeCloseAllExited ==
    AnyClosed => \A t \in Loops : pc[t] \in {"idle", "done"}

\* A decode loop that will not decode again: it has ended or was never
\* started, it is the thread inside stop(), or it is at its loop head
\* ("while not self._stopped") with stopped set.
LoopFinished(t) ==
    \/ pc[t] \in {"idle", "done"}
    \/ InStop(t)
    \/ pc[t] \in {"a_while", "v_while"} /\ stopped

\* C3 amended: whenever a handle has been closed, no decode loop is still
\* decoding: each loop has ended, or is the thread that runs stop() itself
\* (its join of itself is skipped), or is at its loop head about to end.
C3_JoinBeforeClose == AnyClosed => \A t \in Loops : LoopFinished(t)

\* Witness of C3: a handle is closed while a decode loop is the thread inside
\* stop().
C3_Witness == AnyClosed /\ \E t \in Loops : InStop(t)

\* C4: a stop() called after an earlier stop() ran to its end leaves the
\* observable state as it was when it was called, and raises nothing.
C4_StopIdempotent ==
    (pc["host"] = "ret" /\ hop = "stop" /\ snap.prior > 0)
        => (Observable = snap.obs /\ herr = "none")

\* Witness of C4: the host's second stop() has returned, after a first one
\* that released the gate of a paused session and closed the handles.
C4_Witness ==
    /\ pc["host"] = "ret" /\ hop = "stop" /\ snap.prior > 0
    /\ paused /\ pause_event /\ vc_closed > 0

\* C5: at the step in which a session with loop limit N >= 1 becomes stopped,
\* the video loop counter reads N.
C5_VideoCountAtStop ==
    [][(~stopped /\ stopped' /\ loop >= 1) => video_loop_count' = loop]_vars

\* loop passes over the stream, each publishing every frame in decode order
AllPasses(n) == [k \in 1..(n * NumFrames) |-> (k - 1) % NumFrames]

\* C6: a session without audio that the host only starts, with loop limit
\* N >= 1, has published exactly N x NumFrames frames, each pass in decode
\* order, when its video loop has ended.
C6_EveryFramePublished ==
    (pc["video"] = "done" /\ hcalls = 1 /\ loop >= 1 /\ ~has_audio)
        => published = AllPasses(loop)


\* C7: move(t) sets the clock to t clamped into [0, duration], and the first
\* clock value a decode loop writes after move(t) has returned is within one
\* frame period of the clamped target.
C7_SeekResetsClock ==
    [][/\ (pc["host"] = "m_clock" /\ pc'["host"] # "m_clock")
            => time' = MoveTime(MoveTimestamp)
       /\ (seek_pending # NoSeek /\ seek_pending' = NoSeek)
            => /\ ~Less(Ms(FrameMs), Minus(time', seek_pending))
               /\ ~Less(Ms(FrameMs), Minus(seek_pending, time'))]_vars

\* The host is about to reposition a decode cursor.
AtSeek == pc["host"] \in {"m_seek_a", "m_seek_v", "mf_seek_a", "mf_seek_v"}

\* C8: whenever move() or move_frame() repositions a decode cursor of a
\* started session, the gate is cleared and both decode loops wait at the gate.
C8_SeekOnlyWhilePaused ==
    (AtSeek /\ video_thread = "started" /\ ~stopped)
        => (~pause_event /\ Parked("audio") /\ Parked("video"))

\* C9: when move, forward, rewind, move_frame or forward_frame returns on a
\* started session, the paused flag and the gate are what they were when it
\* was called.
C9_SeekRestoresPause ==
    (/\ pc["host"] = "ret"
     /\ video_thread = "started"
     /\ hop \in {"move", "forward", "rewind", "move_frame", "forward_frame"}
     /\ herr = "none"
     /\ ~stopped)
        => (paused = snap.paused /\ pause_event = snap.gate)

\* C10: rewind_frame(k) returns without raising, and the clock index is then
\* the clamped value of (index before - k).
C10_RewindFrameMirrors ==
    (pc["host"] = "ret" /\ hop = "rewind_frame")
        => (herr = "none" /\ idx = MoveFrameIdx(hloc.cur - harg * IdxScale))

\* C11: move_frame(n) seeks the video cursor to, and sets the clock to, what
\* move(n x time_base) computes: time = n x time_base clamped into
\* [0, duration], index = that time in ticks.
C11_MoveFrameAsMove ==
    [][/\ (pc["host"] = "mf_seek_v" /\ pc'["host"] = "mf_clock"
              /\ hop = "move_frame")
            => vcur' = SeekCursor(MoveIdx(MoveTime(Ms(harg * TickMs))))
       /\ (pc["host"] = "mf_clock" /\ pc'["host"] # "mf_clock"
              /\ hop = "move_frame")
            => /\ time' = MoveTime(Ms(harg * TickMs))
               /\ idx' = MoveIdx(MoveTime(Ms(harg * TickMs)))]_vars

\* C12: a transport operation called after a stop() has run to its end
\* returns without raising; a seek of a closed container raises.
C12_TransportAfterStop ==
    (pc["host"] = "ret" /\ hop \in TransportOps /\ snap.prior > 0)
        => herr = "none"

\* The frames a session without audio publishes when nothing but start() is
\* called: the video loop run on its own from frame i of pass `pass`, the
\* clock at t, `acc` published so far.
RECURSIVE RunFrom(_, _, _, _, _, _)
RunFrom(pass, i, t, s, n, acc) ==
    IF i = NumFrames
      THEN IF PlaysAgain(pass + 1, n)
             THEN RunFrom(pass + 1, SeekCursor(0), t, s, n, acc)
             ELSE acc
      ELSE LET pts == ScaledPts(i, s)
           IN IF TooLate(Minus(pts, t)) \/ TooSoon(pts, s)
                THEN RunFrom(pass, i + 1, t, s, n, acc)
                ELSE RunFrom(pass, i + 1, pts, s, n, Append(acc, i))
VideoOnlyRun(n, s) == RunFrom(0, 0, Ms(0), s, n, <<>>)

\* The host's second of two consecutive toggle_pause() calls has returned;
\* the first found a playing session and the decode loops have crossed no
\* frame boundary since.
SecondToggleReturned ==
    /\ pc["host"] = "ret" /\ hop = "toggle_pause"
    /\ snap.first.set
    /\ ~snap.first.stopped /\ ~snap.first.paused /\ snap.first.gate
    /\ ~crossed

\* The step is one of the host inside toggle_pause().
ToggleStep ==
    /\ hop = "toggle_pause"
    /\ pc["host"] \in {"tp_gate", "tp_flag"}
    /\ pc'["host"] # pc["host"]

\* C13 as stated: after two consecutive toggle_pause() calls on a playing
\* session with no frame boundary crossed in between, paused is false and
\* the gate is set.
C13_PauseRoundTripAlways == SecondToggleReturned => (~paused /\ pause_event)

\* C13: after two consecutive toggle_pause() calls on a playing session that
\* no decode loop has stopped meanwhile, paused is false and the gate is set;
\* a step of toggle_pause() changes nothing of the decode loops' state; and
\* a session without audio has published, when its video loop has ended,
\* the frames it publishes when only start() is called.
C13_PauseRoundTrip ==
    /\ []((SecondToggleReturned /\ ~stopped) => (~paused /\ pause_event))
    /\ [][ToggleStep => UNCHANGED <<published, slot, clock, counts, cursors,
                                    alocals, vlocals, stopped, params>>]_vars
    /\ []((pc["video"] = "done" /\ ~has_audio /\ loop >= 1)
            => published = VideoOnlyRun(loop, speed))

\* Witness of C13: a session without audio that was paused and resumed by
\* two consecutive calls while it held a frame, and has played to its end.
C13_Witness ==
    /\ SecondToggleReturned /\ ~stopped
    /\ video_thread = "started" /\ ~has_audio /\ loop >= 1
    /\ pc["video"] = "v_chk" /\ Len(published) > 0
    /\ ~paused /\ pause_event

\* The frame most recently stored into the slot, -1 (the blank canvas of
\* __init__) when none has been.
LastPublished ==
    IF published = <<>> THEN -1 ELSE published[Len(published)]

\* C14: get_frame() waits for nothing but the frame lock, which no decode loop
\* holds across a step: wherever the host stands inside get_frame() its next
\* step can be taken, paused, stopped or not yet started; and it returns the
\* frame most recently published, the blank canvas when there is none.
C14_GetFrameNeverWaits ==
    /\ [](pc["host"] \in {"gf_lock", "gf_body"}
             => ENABLED (GetFrameLock \/ GetFrameBody))
    /\ [][(pc["host"] = "gf_body" /\ pc'["host"] = "ret")
             => (hloc'.cur = LastPublished /\ herr' = "none")]_vars

\* Witness of C14: get_frame() has returned a published frame to the host of
\* a paused session whose video loop waits at the gate.
C14_Witness ==
    /\ pc["host"] = "ret" /\ hop = "get_frame"
    /\ hloc.cur >= 0 /\ hloc.cur = LastPublished
    /\ paused /\ ~pause_event /\ pc["video"] = "v_wait"

\* x brought into [lo, hi]
Clamped(x, lo, hi) == IF x < lo THEN lo ELSE IF x > hi THEN hi ELSE x

\* The value the setter that has returned was to store.
SetterTarget ==
    CASE hop = "set_volume" -> Clamped(harg, MinVolume, MaxVolume)
      [] hop = "increase_volume" ->
            Clamped(snap.volume + harg, MinVolume, MaxVolume)
      [] hop = "decrease_volume" ->
            Clamped(snap.volume - harg, MinVolume, MaxVolume)
      [] hop = "set_playback_speed" -> Clamped(harg, MinSpeed, MaxSpeed)
      [] hop = "increase_playback_speed" ->
            Clamped(snap.speed + harg, MinSpeed, MaxSpeed)
      [] hop = "decrease_playback_speed" ->
            Clamped(snap.speed - harg, MinSpeed, MaxSpeed)

VolumeOps == {"set_volume", "increase_volume", "decrease_volume"}
SpeedOps == {"set_playback_speed", "increase_playback_speed",
             "decrease_playback_speed"}

\* C15: volume is always within [0, 1] and speed within [0.1, 8.0]; a volume
\* setter that has returned has stored the clamped value of its argument and
\* left the speed alone, and a speed setter likewise.
C15_BoundedParams ==
    /\ volume >= MinVolume /\ volume <= MaxVolume
    /\ speed >= MinSpeed /\ speed <= MaxSpeed
    /\ (pc["host"] = "ret" /\ hop \in VolumeOps)
          => (volume = SetterTarget /\ speed = snap.speed)
    /\ (pc["host"] = "ret" /\ hop \in SpeedOps)
          => (speed = SetterTarget /\ volume = snap.volume)

\* Witness of C15: increase_playback_speed has returned with its sum above
\* 8.0 and the speed at 8.0, in a session constructed with speed 0 (stored
\* as 0.1) whose volume an earlier call took to 0.
C15_Witness ==
    /\ pc["host"] = "ret" /\ hop = "increase_playback_speed"
    /\ snap.speed + harg > MaxSpeed /\ speed = MaxSpeed
    /\ snap.speed = MinSpeed /\ volume = MinVolume

\* Frames lo..hi in order.
FramesFromTo(lo, hi) == [k \in 1..(hi - lo + 1) |-> lo + k - 1]

\* The last QueueCap of the n frames handed over, oldest first.
LastFrames(n) == FramesFromTo(Max(1, n - QueueCap + 1), n)

\* C16: while no encode loop runs, the queue holds after every write_frame
\* the last 50 frames handed over, oldest first (after frames 1..51: frames
\* 2..51); and every dequeue of the encode loop takes the oldest frame and
\* leaves the others in order.
C16_OverflowDropsOldest ==
    /\ []((r_frame_thread = "none" /\ rpc["host"] \in {"idle", "w_ret"})
            => r_video_frames = LastFrames(r_written))
    /\ [][(rpc["encode"] = "e_get" /\ rpc'["encode"] = "e_stamp")
            => /\ r_surf' = Head(r_video_frames)
               /\ r_video_frames' = Tail(r_video_frames)]_vars

\* Witness of C16: with no encode loop, write_frame has returned from its
\* 51st call and the queue holds frames 2..51.
C16_Witness ==
    /\ r_frame_thread = "none" /\ rpc["host"] = "w_ret" /\ r_err = "none"
    /\ r_written = QueueCap + 1
    /\ r_video_frames = FramesFromTo(2, QueueCap + 1)

\* C17: write_frame raises nothing (neither queue.Full nor queue.Empty), and
\* the frame it was given is in the queue when its last put has returned.
C17_WriteFrameNeverFails ==
    [][rpc'["host"] = "w_ret" /\ rpc["host"] # "w_ret"
         => /\ r_err' = "none"
            /\ \E k \in 1..Len(r_video_frames') :
                  r_video_frames'[k] = r_frame]_vars

\* C18: every frame the encode loop encodes carries a pts greater than that
\* of the frame encoded before it.
C18_PtsStrictlyIncreasing ==
    [][(rpc["encode"] = "e_mux" /\ rpc'["encode"] = "e_sleep")
         => r_pts > r_last_pts]_vars

\* C19: once the container is closed, stopped is set, every loop that was
\* started has ended, the encode loop after flushing the video encoder; and
\* no packet is ever muxed into the closed container.
C19_RecorderStopOrdering ==
    /\ r_container_closed > 0
          => /\ r_stopped
             /\ r_frame_thread = "started"
                   => (rpc["encode"] = "done" /\ r_flushed)
             /\ r_audio_thread = "started" => rpc["capture"] = "done"
    /\ rpc["host"] \in {"rstop_join_f", "rstop_join_a", "rstop_close"}
          => r_stopped
    /\ ~r_muxed_closed

\* Witness of C19: a recorder with audio that was handed frames has been
\* stopped: both loops have ended, the encoder is flushed, the container is
\* closed.
C19_Witness ==
    /\ r_container_closed > 0 /\ r_input_closed > 0
    /\ r_frame_thread = "started" /\ r_audio_thread = "started"
    /\ r_flushed /\ r_written > 0 /\ r_video_frames = <<>>

\* C20: the video loop discards a decoded frame only when it is late by more
\* than the drop threshold (target pts - clock < -threshold); every other
\* decoded frame, the first frame of each pass included, is published to the
\* frame slot, and the frame published is the one decoded last.
C20_PublishOrDrop ==
    [][/\ (pc["video"] \in {"v_delay", "v_soon"} /\ pc'["video"] = "v_pull")
            => /\ pc["video"] = "v_delay"
               /\ TooLate(Minus(ScaledPts(vframe, speed), audio_pts))
       /\ (pc["video"] = "v_publish" /\ pc'["video"] = "v_pull")
            => frame' = vcur - 1]_vars

\* C21: the clock time never decreases from one state to the next, under every
\* interleaving of the decode loops and the transport operations, except in
\* the step of move()/move_frame() that resets it to the seek target.
C21_ClockMonotonic ==
    [][\/ ~Less(time', time)
       \/ /\ pc["host"] \in {"m_clock", "mf_clock"}
          /\ pc'["host"] # pc["host"]
          /\ time' = hloc.t]_vars

\* C22: while an audio track plays (has_audio and play_audio) no step of the
\* video loop changes the clock, which only the audio loop's clock write and
\* the seeks' clock reset change; with no audio playing, every frame the video
\* loop goes on to publish has first had its pts and index stored in the
\* clock, both in one step.
AudioPlays == has_audio /\ play_audio

VideoStep == pc'["video"] # pc["video"]

ClockChanged == <<time, idx>>' # <<time, idx>>

C22_ClockWriter ==
    [][/\ (AudioPlays /\ VideoStep) => ~ClockChanged
       /\ (AudioPlays /\ ClockChanged) =>
             \/ pc["audio"] = "a_clock" /\ pc'["audio"] = "a_write"
             \/ pc["host"] \in {"m_clock", "mf_clock"} /\ pc'["host"] # pc["host"]
       /\ (~AudioPlays /\ VideoStep /\ pc'["video"] = "v_publish") =>
             /\ pc["video"] = "v_clock"
             /\ vframe' = vframe
             /\ time' = ScaledPts(vframe, speed)
             /\ idx' = FramePtsIdx(vframe)]_vars

C22_Witness ==
    /\ ~AudioPlays
    /\ pc["video"] = "v_publish"
    /\ vframe >= 1
    /\ time = ScaledPts(vframe, speed)
    /\ idx = FramePtsIdx(vframe)

\* C23: while the gate stays cleared, with no seek in between, each decode
\* loop finishes at most the iteration it is in and parks at the gate wait:
\* the video loop publishes at most one more frame and writes the clock at
\* most once more, the audio loop writes the clock and an audio buffer at most
\* once more; and only toggle_pause() or stop() sets the gate again.
\* What a loop at position p may still do while the gate is cleared:
VideoFramesLeft(p) ==
    IF p \in {"v_chk", "v_read", "v_delay", "v_soon", "v_clock", "v_publish"}
      THEN 1 ELSE 0

VideoClocksLeft(p) ==
    IF p \in {"v_chk", "v_read", "v_delay", "v_soon", "v_clock"} THEN 1 ELSE 0

AudioClocksLeft(p) == IF p = "a_clock" THEN 1 ELSE 0

AudioBuffersLeft(p) == IF p \in {"a_clock", "a_write"} THEN 1 ELSE 0

Spent(done) == IF done THEN 1 ELSE 0

C23_PauseLatency ==
    [][/\ (~pause_event /\ ~pause_event') =>
            /\ VideoFramesLeft(pc'["video"]) + Spent(published' # published)
                 <= VideoFramesLeft(pc["video"])
            /\ VideoClocksLeft(pc'["video"])
                 + Spent(pc["video"] = "v_clock" /\ pc'["video"] = "v_publish")
                 <= VideoClocksLeft(pc["video"])
            /\ AudioClocksLeft(pc'["audio"])
                 + Spent(pc["audio"] = "a_clock" /\ pc'["audio"] = "a_write")
                 <= AudioClocksLeft(pc["audio"])
            /\ AudioBuffersLeft(pc'["audio"])
                 + Spent(pc["audio"] = "a_write" /\ pc'["audio"] = "a_pull")
                 <= AudioBuffersLeft(pc["audio"])
            /\ (pc["video"] = "v_wait" => pc'["video"] = "v_wait")
            /\ (pc["audio"] = "a_wait" => pc'["audio"] = "a_wait")
       /\ (~pause_event /\ pause_event') =>
            \/ pc["host"] = "tp_gate" /\ hop = "toggle_pause"
            \/ \E t \in Threads : pc[t] = "s_gate_set" /\ pc'[t] # pc[t]]_vars

C23_Witness ==
    /\ ~pause_event
    /\ paused
    /\ ~stopped
    /\ hop = "toggle_pause"
    /\ crossed
    /\ frame >= 1
    /\ pc["video"] = "v_wait"
    /\ pc["audio"] = "a_wait"

\* C24: in the package player the frame's flag is "unused" exactly when a
\* frame has been stored since the last get_frame; the image and the flag
\* change only in a step of the thread that holds the frame lock, the video
\* loop storing both with the flag "unused", get_frame setting it to "used".
C24_FreshnessFlag ==
    /\ [](p_flag = "unused" <=> p_fresh)
    /\ [][/\ (p_frame' # p_frame \/ (p_flag' = "unused" /\ p_flag = "used"))
             => /\ p_frame_lock = "video"
                /\ p_frame' = p_buf
                /\ p_flag' = "unused"
          /\ (p_flag' = "used" /\ p_flag = "unused")
             => /\ p_frame_lock = "host"
                /\ p_frame' = p_frame]_vars

\* Witness of C24: after a get_frame that marked a frame as used, the video
\* loop has stored a later frame, which is unused.
C24_Witness ==
    /\ p_hop = "get_frame"
    /\ ppc["host"] = "ret"
    /\ p_frame >= 1
    /\ p_flag = "unused"
    /\ p_fresh

PkgParked ==
    /\ ppc["audio"] = "ka_wait"
    /\ ppc["video"] = "kv_wait"

PkgPausedStopCalled ==
    /\ ppc["host"] = "ps_chk"
    /\ p_hop = "stop"
    /\ p_paused
    /\ ~p_pause_event
    /\ ~p_stopped
    /\ PkgParked

PkgStopReturned ==
    /\ ppc["host"] = "ret"
    /\ p_hop = "stop"

\* C25: in the package player, stop() called on a paused session has the
\* gate set whenever it is at a join, so the play loops leave their gate
\* wait and end, and stop() returns.
C25_PkgPausedStopReturns ==
    /\ [](ppc["host"] \in {"ps_join_a", "ps_join_v"} => p_pause_event)
    /\ (PkgPausedStopCalled ~> PkgStopReturned)

\* C26: under every interleaving of stop() invocations of the host and the
\* decode loops, the body guarded by the stopped flag runs in at most one of
\* them: no two threads are inside it, and the audio container, the output
\* device and the video container are each closed at most once.
InStopBody(t) == InStop(t) /\ pc[t] # "s_chk"

C26_ReleasedOnce ==
    /\ \A t, u \in Threads : (InStopBody(t) /\ InStopBody(u)) => t = u
    /\ ac_closed <= 1
    /\ st_closed <= 1
    /\ vc_closed <= 1

\* C27: when the recorder's stop() closes the container and returns, the
\* queue is empty: every frame write_frame accepted before stop() was called
\* and did not evict has been dequeued and muxed by the encode loop.
C27_NoFrameLostAtStop ==
    [][(/\ r_frame_thread = "started"
        /\ rpc["host"] = "rstop_close"
        /\ rpc'["host"] = "idle")
         => r_video_frames = <<>>]_vars

\* C28: the capture loop flushes the audio encoder only once it has seen the
\* stop flag and is about to end, and hands no captured frame to an encoder
\* that has been flushed.
C28_AudioFlushLast ==
    [][/\ (rpc["capture"] = "c_flush" /\ rpc'["capture"] # "c_flush")
            => rpc'["capture"] = "done"
       /\ (rpc["capture"] = "c_mux" /\ rpc'["capture"] # "c_mux")
            => ~r_aflushed]_vars

\* C29: get_frame(size) leaves the frame slot as it is, whatever the size
\* asked for: the slot holds the last frame published (or the initial
\* canvas) at the video's own size in every state, so a later get_frame()
\* returns it unscaled.
C29_GetFrameKeepsSlot ==
    /\ [](frame_size = 1 /\ frame = LastPublished)
    /\ [][(pc["host"] = "gf_body" /\ pc'["host"] = "ret")
            => (frame' = frame /\ frame_size' = frame_size
                /\ (harg = 0 => hloc'.size = 1))]_vars

\* C30: in every state in which the host is not inside the body of
\* toggle_pause(), paused is true exactly when the gate is cleared.
C30_PausedAgreesWithGate ==
    pc["host"] \notin {"tp_gate", "tp_flag"} => (paused <=> ~pause_event)

====
